---- MODULE Spec2Model ----
(***************************************************************************)
(* Bench-scoring pipeline of the beerLeague repository (stats-sleeper):    *)
(* bench identification, weekly matchup pairing and season aggregation.    *)
(*                                                                         *)
(* Points are held as integer hundredths of a point: every total the code  *)
(* stores has been through round(x, 2).  A missing value (Python None) of  *)
(* a roster id, a matchup id or a starter slot is 0; real ids are >= 1.    *)
(***************************************************************************)
EXTENDS Integers, Sequences, FiniteSets, TLC

VARIABLES
    pc,                \* position of the modelled call: inputs drawn / call returned
    roster_players,    \* identify_bench_players: argument roster_players (list)
    starters,          \* identify_bench_players: argument starters (list, 0 = empty slot)
    reserve_players,   \* identify_bench_players: argument reserve_players (list or None)
    bench_player_ids,  \* identify_bench_players: returned ids (list(set): order unspecified)
    week,              \* create_weekly_matchups: argument week
    weekly_results,    \* create_weekly_matchups: argument weekly_results
    sleeper_matchups,  \* create_weekly_matchups: what get_matchups_for_week returned
    bench_matchups,    \* create_weekly_matchups: returned list of BenchMatchup
    all_results,       \* calculate_season_standings: argument weekly_results
    all_matchups,      \* calculate_season_standings: argument matchups
    standings,         \* calculate_season_standings: returned list
    point_ids,         \* calculate_bench_points: argument bench_player_ids (list)
    players_points,    \* calculate_bench_points: argument players_points (dict)
    total_points,      \* calculate_bench_points: returned total
    now,               \* wall clock (time.time()), in days
    cache_players,     \* config.cache_players
    cache_file,        \* the player cache file on disk
    players_cache,     \* PlayerLookup.players_cache
    cache_loaded,      \* PlayerLookup.cache_loaded
    obtained_at,       \* when the provider delivered the data of players_cache
    io_log,            \* disk and network operations of the last PlayerLookup call
    last_call,         \* the last PlayerLookup call: what it was and what it returned
    scored_week,       \* process_week_bench_scores: argument week
    matchups,          \* process_week_bench_scores: what get_matchups_for_week returned
    rosters,           \* process_week_bench_scores: what league.get_rosters() returns
    roster_owners,     \* BenchScorer.roster_owners
    scored_results,    \* process_week_bench_scores: returned list
    week_error,        \* process_week_bench_scores: its handler (255-257) caught an exception
    results_csv,       \* the weekly results file save_weekly_results writes
    loaded_results,    \* load_historical_data: returned list
    run_results,       \* main: all_results, the weekly results accumulated by the run
    run_matchups,      \* main: all_matchups, the matchups accumulated by the run
    week_log,          \* what each processed week of the run met and contributed
    batch_records,     \* update_season_records: returned list
    api_standings,     \* dashboard, SeasonStandings.get: returned list
    run_count,         \* processing runs made so far; run k saves at timestamp k
    results_files,     \* the weekly_results_<timestamp>.csv files of the data directory
    matchups_files,    \* the weekly_matchups_<timestamp>.csv files of the data directory
    db_teams,          \* table teams: roster_id (primary key) to its row
    db_weekly_results, \* table weekly_results, without the surrogate ids
    db_matchups,       \* table matchups, without the surrogate ids
    sync_log,          \* the sync_database calls made: what each found and left behind
    config_league_id,  \* config.league_id, from SLEEPER_LEAGUE_ID
    given_league_id,   \* the --league-id argument, if given
    data_dir,          \* the directory config.data_dir names
    given_output_dir,  \* the directory the --output-dir argument names, if given
    requests,          \* the league ids of the requests main sent to the platform
    exit_status        \* the status main ended with; -1 while it runs

benchVars  == << roster_players, starters, reserve_players, bench_player_ids >>
pairVars   == << week, weekly_results, sleeper_matchups, bench_matchups >>
seasonVars == << all_results, all_matchups, standings >>
pointsVars == << point_ids, players_points, total_points >>
lookupVars == << now, cache_players, cache_file, players_cache, cache_loaded,
                 obtained_at, io_log, last_call >>
weekVars   == << scored_week, matchups, rosters, roster_owners, scored_results,
                 week_error, results_csv, loaded_results >>

runVars    == << run_results, run_matchups, week_log >>

recordVars == << batch_records, api_standings >>

storeVars  == << run_count, results_files, matchups_files, db_teams,
                 db_weekly_results, db_matchups, sync_log >>

startVars  == << config_league_id, given_league_id, data_dir, given_output_dir,
                 requests, exit_status >>

\* The state of whole runs and of the dashboard
systemVars == << runVars, recordVars, storeVars, startVars >>

vars == << pc, benchVars, pairVars, seasonVars, pointsVars, lookupVars, weekVars,
           systemVars >>

----------------------------------------------------------------------------
(* Bounds of the model *)

NumPlayers == 3       \* player ids are 1..NumPlayers
MaxListLen == 2       \* longest starters list
NumRosters == 3       \* roster ids are 1..NumRosters
MaxMatchupId == 1     \* platform matchup ids are 1..MaxMatchupId
NumWeeks == 2         \* weeks are 1..NumWeeks

Players == 1..NumPlayers
Rosters == 1..NumRosters
Weeks == 1..NumWeeks
PointValues == {0, 1000}          \* weekly totals: 0.00 and 10.00 points

----------------------------------------------------------------------------
(* Generic helpers *)

Range(s) == {s[i] : i \in DOMAIN s}

SeqsUpTo(S, n) == UNION {[1..k -> S] : k \in 0..n}

Abs(x) == IF x < 0 THEN -x ELSE x

\* round(a / b, n) on the scaled integers: to nearest, an exact half to even
RoundDiv(a, b) ==
    LET q == a \div b
        r == a % b
    IN  IF 2 * r < b THEN q
        ELSE IF 2 * r > b THEN q + 1
        ELSE IF q % 2 = 0 THEN q ELSE q + 1

\* reserve_players = None
NoneList == << -1 >>

\* A dict is a function on the set of its keys
EmptyMap == << >>

\* d.get(key, default)
Get(d, key, default) == IF key \in DOMAIN d THEN d[key] ELSE default

\* Text is a sequence of characters; a fixed prefix is one element
Digits == << "0", "1", "2", "3", "4", "5", "6", "7", "8", "9" >>

Digit(d) == Digits[d + 1]

DigitValue(c) == CHOOSE d \in 0..9 : Digit(d) = c

IsDigits(text) == text # << >> /\ \A i \in DOMAIN text : text[i] \in Range(Digits)

\* str(n) and int(text) for n >= 0
RECURSIVE IntToText(_)
IntToText(n) ==
    IF n < 10 THEN << Digit(n) >>
    ELSE IntToText(n \div 10) \o << Digit(n % 10) >>

RECURSIVE TextToInt(_)
TextToInt(text) ==
    IF Len(text) = 1 THEN DigitValue(text[1])
    ELSE 10 * TextToInt(SubSeq(text, 1, Len(text) - 1)) + DigitValue(text[Len(text)])

\* None where the code expects text
NoText == << >>

\* bench_scorer.py 191: the name of a roster that roster_owners does not list
DefaultTeamName(roster_id) == << "Team_" >> \o IntToText(roster_id)

\* Python truthiness of a list argument: None and [] are falsy
Truthy(list) == list # NoneList /\ Len(list) > 0

----------------------------------------------------------------------------
(* bench_scorer.py: BenchScorer.identify_bench_players *)

identify_bench_players_no_guard(rp, st, rs) ==
    (Range(rp) \ Range(st)) \ (IF Truthy(rs) THEN Range(rs) ELSE {})

identify_bench_players_keep_reserve(rp, st, rs) ==
    IF ~Truthy(rp) \/ ~Truthy(st) THEN {}
    ELSE Range(rp) \ Range(st)

identify_bench_players(rp, st, rs) ==
    IF ~Truthy(rp) \/ ~Truthy(st)
    THEN {}
    ELSE LET roster_set   == Range(rp)
             starters_set == Range(st)
             reserve_set  == IF Truthy(rs) THEN Range(rs) ELSE {}
         IN  (roster_set \ starters_set) \ reserve_set

\* get_rosters.py, lines 77-94: the helper that derives the non-starters
\* from a roster record; it drops the empty slots from the starters
identify_bench_players_from_roster(players, st) ==
    LET all_players      == IF Truthy(players) THEN Range(players) ELSE {}
        starting_players == IF Truthy(st) THEN {p \in Range(st) : p # 0} ELSE {}
        non_starters     == all_players \ starting_players
    IN  non_starters

IdleBench ==
    /\ roster_players = << >>
    /\ starters = << >>
    /\ reserve_players = << >>
    /\ bench_player_ids = {}

IdlePair ==
    /\ week = 0
    /\ weekly_results = << >>
    /\ sleeper_matchups = << >>
    /\ bench_matchups = << >>

IdleSeason ==
    /\ all_results = << >>
    /\ all_matchups = << >>
    /\ standings = << >>

\* The player cache file: absent, or present with the timestamp and the
\* player map of the snapshot it holds, or present and unreadable
NoFile == [kind |-> "absent", timestamp |-> 0, players |-> EmptyMap]

\* No PlayerLookup call made yet
NoCall == [op |-> "none", player_id |-> 0, at |-> 0, first |-> FALSE,
           file_before |-> NoFile, loaded_before |-> FALSE, obtained_before |-> {},
           found |-> FALSE, ret |-> EmptyMap]

\* The weekly results file does not exist
NoCsv == [exists |-> FALSE, rows |-> << >>]

IdlePoints ==
    /\ point_ids = << >>
    /\ players_points = EmptyMap
    /\ total_points = 0

IdleLookup ==
    /\ now = 0
    /\ cache_players = TRUE
    /\ cache_file = NoFile
    /\ players_cache = EmptyMap
    /\ cache_loaded = FALSE
    /\ obtained_at = {}
    /\ io_log = << >>
    /\ last_call = NoCall

IdleWeek ==
    /\ scored_week = 0
    /\ matchups = << >>
    /\ rosters = << >>
    /\ roster_owners = EmptyMap
    /\ scored_results = << >>
    /\ week_error = FALSE
    /\ results_csv = NoCsv
    /\ loaded_results = << >>

IdleRun ==
    /\ run_results = << >>
    /\ run_matchups = << >>
    /\ week_log = << >>

IdleRecords ==
    /\ batch_records = << >>
    /\ api_standings = << >>

IdleStore ==
    /\ run_count = 0
    /\ results_files = << >>
    /\ matchups_files = << >>
    /\ db_teams = EmptyMap
    /\ db_weekly_results = << >>
    /\ db_matchups = << >>
    /\ sync_log = << >>

\* An argument of the command line, given or left to its default
NotGiven(default) == [given |-> FALSE, value |-> default]

\* A directory: whether it exists, and whether it can be written (created,
\* when it does not exist)
Directory(exists, writable) == [exists |-> exists, writable |-> writable]

IdleStart ==
    /\ config_league_id = NoText
    /\ given_league_id = NotGiven(NoText)
    /\ data_dir = Directory(TRUE, TRUE)
    /\ given_output_dir = NotGiven(Directory(TRUE, TRUE))
    /\ requests = << >>
    /\ exit_status = -1

IdleSystem == IdleRun /\ IdleRecords /\ IdleStore /\ IdleStart

\* The players of S as a list, each once
RECURSIVE ListOf(_)
ListOf(S) ==
    IF S = {} THEN << >>
    ELSE LET p == CHOOSE x \in S : \A y \in S : x <= y
         IN  << p >> \o ListOf(S \ {p})

\* The platform lists a player once per list; a starters list also holds
\* any number of empty slots.  reserve is a list or absent (None).
PlayerLists == {ListOf(S) : S \in SUBSET Players}

StarterLists ==
    {st \in SeqsUpTo(Players \cup {0}, MaxListLen) :
        \A i, j \in DOMAIN st : (i # j /\ st[i] # 0) => st[i] # st[j]}

InitBench ==
    /\ pc = "input"
    /\ roster_players \in PlayerLists
    /\ starters \in StarterLists
    /\ reserve_players \in PlayerLists \cup {NoneList}
    /\ bench_player_ids = {}
    /\ IdlePair
    /\ IdleSeason
    /\ IdlePoints
    /\ IdleLookup
    /\ IdleWeek
    /\ IdleSystem

IdentifyBench ==
    /\ pc = "input"
    /\ bench_player_ids' = identify_bench_players(roster_players, starters, reserve_players)
    /\ pc' = "done"
    /\ UNCHANGED << roster_players, starters, reserve_players, pairVars, seasonVars,
                    pointsVars, lookupVars, weekVars,
                    systemVars >>

NextBench == IdentifyBench

SpecBench == InitBench /\ [][NextBench]_vars

ReserveSet == IF Truthy(reserve_players) THEN Range(reserve_players) ELSE {}

\* C1 (as stated): for all roster, starters and reserve lists the result is
\* exactly rosterPlayers - starters - reserve and holds no starter and no
\* reserve player.
C1_AlwaysSetDifference ==
    pc = "done" =>
        /\ bench_player_ids = (Range(roster_players) \ Range(starters)) \ ReserveSet
        /\ bench_player_ids \cap Range(starters) = {}
        /\ bench_player_ids \cap ReserveSet = {}

\* C1 (amended): with a non-empty starters list the result is exactly
\* rosterPlayers - starters - reserve; with an empty starters list it is
\* empty; in both cases it holds no starter and no reserve player.
C1_SetDifferenceUnlessNoStarters ==
    pc = "done" =>
        /\ starters # << >> =>
             bench_player_ids = (Range(roster_players) \ Range(starters)) \ ReserveSet
        /\ starters = << >> => bench_player_ids = {}
        /\ bench_player_ids \cap Range(starters) = {}
        /\ bench_player_ids \cap ReserveSet = {}

C1_Witness ==
    /\ pc = "done"
    /\ starters # << >>
    /\ bench_player_ids # {}
    /\ Range(roster_players) \cap Range(starters) # {}
    /\ Range(roster_players) \cap ReserveSet # {}

\* The starters list without its empty slots
StripNone(st) == SelectSeq(st, LAMBDA p : p # 0)

\* C13: an empty slot (None) in the starters list does not count as a
\* started player: identify_bench_players returns for S what it returns for
\* S with the empty slots removed, also when every entry of S is an empty
\* slot; the roster helper of get_rosters.py agrees on S and on S without
\* its empty slots too.
C13_EmptySlotsIgnored ==
    pc = "done" =>
        /\ bench_player_ids =
              identify_bench_players(roster_players, StripNone(starters), reserve_players)
        /\ identify_bench_players_from_roster(roster_players, starters) =
              identify_bench_players_from_roster(roster_players, StripNone(starters))

\* C14: the result is empty whenever the roster player list is empty or the
\* starters list is empty, whatever the reserve list is (absent, empty or not).
C14_EmptyInputsGiveEmpty ==
    (pc = "done" /\ (roster_players = << >> \/ starters = << >>)) =>
        bench_player_ids = {}

C14_Witness ==
    /\ pc = "done"
    /\ starters = << >>
    /\ Range(roster_players) \ ReserveSet # {}
    /\ ReserveSet # {}
    /\ bench_player_ids = {}

----------------------------------------------------------------------------
(* bench_scorer.py: BenchScorer.calculate_bench_points *)

\* A value of the players_points table: a number, held in thousandths of a
\* point, or something that is no number (None, a string)
Number(v) == [numeric |-> TRUE, value |-> v]

NotANumber == [numeric |-> FALSE, value |-> 0]

\* Line 147: isinstance(points, (int, float))
IsNumber(points) == points.numeric

\* 1.234 and 2.348 points: no sum of these lies halfway between two hundredths
PlayerPointValues == {1234, 2348}

\* round(x, 2): from thousandths to hundredths of a point
Round2(x) == RoundDiv(x, 10)

\* Lines 144-148: the loop over bench_player_ids
RECURSIVE SumBenchPoints(_, _, _)
SumBenchPoints(ids, pp, total) ==
    IF ids = << >> THEN total
    ELSE LET player_id == Head(ids)
             add == IF player_id \in DOMAIN pp /\ IsNumber(pp[player_id])
                    THEN pp[player_id].value ELSE 0
         IN  SumBenchPoints(Tail(ids), pp, total + add)

calculate_bench_points_truncating(ids, pp) ==
    SumBenchPoints(ids, pp, 0) \div 10

calculate_bench_points(ids, pp) ==
    Round2(SumBenchPoints(ids, pp, 0))

\* The players_points tables over the player ids P: any of them may be
\* missing, hold a number or hold something else
PointsTables(P) ==
    UNION {[S -> {Number(v) : v \in PlayerPointValues} \cup {NotANumber}] : S \in SUBSET P}

InitPoints ==
    /\ pc = "input"
    /\ point_ids \in SeqsUpTo(Players, MaxListLen)
    /\ players_points \in PointsTables(Players)
    /\ total_points = 0
    /\ IdleBench
    /\ IdlePair
    /\ IdleSeason
    /\ IdleLookup
    /\ IdleWeek
    /\ IdleSystem

CalculateBenchPoints ==
    /\ pc = "input"
    /\ total_points' = calculate_bench_points(point_ids, players_points)
    /\ pc' = "done"
    /\ UNCHANGED << point_ids, players_points, benchVars, pairVars, seasonVars,
                    lookupVars, weekVars,
                    systemVars >>

NextPoints == CalculateBenchPoints

SpecPoints == InitPoints /\ [][NextPoints]_vars

\* The positions of point_ids whose id is in the table with a number
Scoring ==
    {i \in DOMAIN point_ids :
        point_ids[i] \in DOMAIN players_points /\ players_points[point_ids[i]].numeric}

RECURSIVE SumScoring(_)
SumScoring(idx) ==
    IF idx = {} THEN 0
    ELSE LET i == CHOOSE x \in idx : TRUE
         IN  players_points[point_ids[i]].value + SumScoring(idx \ {i})

\* C12: the total is the hundredth nearest to the sum of the table values of
\* the listed ids that are in the table with a number; an id missing from
\* the table and a value that is no number add nothing, so the total is 0
\* for an empty id list, for an empty table and whenever no listed id has a
\* number.
C12_SumOfNumericPoints ==
    pc = "done" =>
        /\ Abs(10 * total_points - SumScoring(Scoring)) < 5
        /\ point_ids = << >> => total_points = 0
        /\ DOMAIN players_points = {} => total_points = 0
        /\ Scoring = {} => total_points = 0

C12_Witness ==
    /\ pc = "done"
    /\ \E i \in DOMAIN point_ids : point_ids[i] \notin DOMAIN players_points
    /\ \E p \in DOMAIN players_points : ~players_points[p].numeric
    /\ Scoring # {}
    /\ 10 * total_points > SumScoring(Scoring)

----------------------------------------------------------------------------
(* bench_scorer.py: BenchScorer.create_weekly_matchups *)

\* WeeklyBenchResult, the fields the pairing and the aggregation read
WeeklyBenchResult(w, r, p) ==
    [week |-> w, roster_id |-> r, team_name |-> DefaultTeamName(r),
     total_bench_points |-> p]

\* BenchMatchup with the names of its two sides exchanged
BenchMatchupNamesExchanged(w, mid, r1, n1, p1, r2, n2, p2, win, margin) ==
    [week |-> w, matchup_id |-> mid,
     team1_roster_id |-> r1, team1_name |-> n2, team1_bench_points |-> p1,
     team2_roster_id |-> r2, team2_name |-> n1, team2_bench_points |-> p2,
     winner_roster_id |-> win, margin_of_victory |-> margin]

\* BenchMatchup
BenchMatchup(w, mid, r1, n1, p1, r2, n2, p2, win, margin) ==
    [week |-> w, matchup_id |-> mid,
     team1_roster_id |-> r1, team1_name |-> n1, team1_bench_points |-> p1,
     team2_roster_id |-> r2, team2_name |-> n2, team2_bench_points |-> p2,
     winner_roster_id |-> win, margin_of_victory |-> margin]

\* One per-roster record of the platform's matchup data for a week
SleeperRecord(r, mid) == [roster_id |-> r, matchup_id |-> mid]

\* Lines 296-305: (index of the winning side, margin); a tie goes to the first team
DetermineWinnerTieToSecond(team1_points, team2_points) ==
    IF team1_points > team2_points THEN << 0, team1_points - team2_points >>
    ELSE << 1, team2_points - team1_points >>

DetermineWinnerSignedMargin(team1_points, team2_points) ==
    IF team1_points > team2_points THEN << 0, team1_points - team2_points >>
    ELSE IF team2_points > team1_points THEN << 1, team1_points - team2_points >>
    ELSE << 0, 0 >>

DetermineWinner(team1_points, team2_points) ==
    IF team1_points > team2_points THEN << 0, team1_points - team2_points >>
    ELSE IF team2_points > team1_points THEN << 1, team2_points - team1_points >>
    ELSE << 0, 0 >>

\* Lines 268-276: the keys of matchup_groups in insertion order
RECURSIVE GroupKeys(_, _)
GroupKeys(sm, seen) ==
    IF sm = << >> THEN << >>
    ELSE LET rec  == Head(sm)
             keep == rec.matchup_id # 0 /\ rec.roster_id # 0
                     /\ rec.matchup_id \notin seen
         IN  IF keep
             THEN << rec.matchup_id >> \o GroupKeys(Tail(sm), seen \cup {rec.matchup_id})
             ELSE GroupKeys(Tail(sm), seen)

\* Lines 268-276: matchup_groups[mid], the roster ids appended in record order
RECURSIVE GroupMembers(_, _)
GroupMembers(sm, mid) ==
    IF sm = << >> THEN << >>
    ELSE LET rec == Head(sm)
         IN  IF rec.matchup_id # 0 /\ rec.roster_id # 0 /\ rec.matchup_id = mid
             THEN << rec.roster_id >> \o GroupMembers(Tail(sm), mid)
             ELSE GroupMembers(Tail(sm), mid)

\* Lines 286-293: the search loop; 0 stands for None, otherwise the index of
\* the result kept in team1_result / team2_result when the loop ends
RECURSIVE FindTeamResults(_, _, _, _, _, _)
FindTeamResults(wr, i, roster1_id, roster2_id, t1, t2) ==
    IF i > Len(wr) THEN << t1, t2 >>
    ELSE IF wr[i].roster_id = roster1_id
         THEN FindTeamResults(wr, i + 1, roster1_id, roster2_id, i, t2)
         ELSE IF wr[i].roster_id = roster2_id
              THEN FindTeamResults(wr, i + 1, roster1_id, roster2_id, t1, i)
              ELSE FindTeamResults(wr, i + 1, roster1_id, roster2_id, t1, t2)

\* Lines 282-321: the matchups one group contributes (none or one)
GroupMatchupsEitherResult(wr, w, mid, roster_ids) ==
    IF Len(roster_ids) = 2
    THEN LET found == FindTeamResults(wr, 1, roster_ids[1], roster_ids[2], 0, 0)
         IN  IF found[1] # 0 \/ found[2] # 0
             THEN LET p1  == IF found[1] # 0 THEN wr[found[1]].total_bench_points ELSE 0
                      p2  == IF found[2] # 0 THEN wr[found[2]].total_bench_points ELSE 0
                      n1  == IF found[1] # 0 THEN wr[found[1]].team_name
                             ELSE DefaultTeamName(roster_ids[1])
                      n2  == IF found[2] # 0 THEN wr[found[2]].team_name
                             ELSE DefaultTeamName(roster_ids[2])
                      res == DetermineWinner(p1, p2)
                  IN  << BenchMatchup(w, mid, roster_ids[1], n1, p1,
                                      roster_ids[2], n2, p2,
                                      roster_ids[res[1] + 1], res[2]) >>
             ELSE << >>
    ELSE << >>

GroupMatchupsAnySize(wr, w, mid, roster_ids) ==
    IF Len(roster_ids) >= 2
    THEN LET found == FindTeamResults(wr, 1, roster_ids[1], roster_ids[2], 0, 0)
         IN  IF found[1] # 0 /\ found[2] # 0
             THEN LET p1  == wr[found[1]].total_bench_points
                      p2  == wr[found[2]].total_bench_points
                      res == DetermineWinner(p1, p2)
                  IN  << BenchMatchup(w, mid, roster_ids[1], wr[found[1]].team_name, p1,
                                      roster_ids[2], wr[found[2]].team_name, p2,
                                      roster_ids[res[1] + 1], res[2]) >>
             ELSE << >>
    ELSE << >>

GroupMatchups(wr, w, mid, roster_ids) ==
    IF Len(roster_ids) = 2
    THEN LET roster1_id == roster_ids[1]
             roster2_id == roster_ids[2]
             found == FindTeamResults(wr, 1, roster1_id, roster2_id, 0, 0)
         IN  IF found[1] # 0 /\ found[2] # 0
             THEN LET p1  == wr[found[1]].total_bench_points
                      p2  == wr[found[2]].total_bench_points
                      res == DetermineWinner(p1, p2)
                  IN  << BenchMatchup(w, mid, roster1_id, wr[found[1]].team_name, p1,
                                      roster2_id, wr[found[2]].team_name, p2,
                                      roster_ids[res[1] + 1], res[2]) >>
             ELSE << >>
    ELSE << >>

RECURSIVE MatchupsOfGroups(_, _, _, _)
MatchupsOfGroups(wr, w, sm, keys) ==
    IF keys = << >> THEN << >>
    ELSE GroupMatchups(wr, w, Head(keys), GroupMembers(sm, Head(keys)))
         \o MatchupsOfGroups(wr, w, sm, Tail(keys))

create_weekly_matchups(wr, w, sm) ==
    IF sm = << >> THEN << >>
    ELSE MatchupsOfGroups(wr, w, sm, GroupKeys(sm, {}))

\* What get_matchups_for_week can return: one record per roster (a roster id
\* appears at most once), any of which may lack its roster id or matchup id
SleeperResponses ==
    {sm \in SeqsUpTo([roster_id : 0..NumRosters, matchup_id : 0..MaxMatchupId], NumRosters) :
        \A i, j \in DOMAIN sm : i # j => sm[i].roster_id # sm[j].roster_id}

\* The weekly results of week w given by f, which maps a roster id to its
\* total or to -1 (no result): one result per roster, as
\* process_week_bench_scores builds them
RECURSIVE ResultsFrom(_, _, _)
ResultsFrom(f, w, r) ==
    IF r > NumRosters THEN << >>
    ELSE (IF f[r] = -1 THEN << >> ELSE << WeeklyBenchResult(w, r, f[r]) >>)
         \o ResultsFrom(f, w, r + 1)

WeeklyResultLists(w) ==
    {ResultsFrom(f, w, 1) : f \in [Rosters -> PointValues \cup {-1}]}

InitPair ==
    /\ pc = "input"
    /\ week = NumWeeks
    /\ weekly_results \in WeeklyResultLists(week)
    /\ sleeper_matchups \in SleeperResponses
    /\ bench_matchups = << >>
    /\ IdleBench
    /\ IdleSeason
    /\ IdlePoints
    /\ IdleLookup
    /\ IdleWeek
    /\ IdleSystem

CreateWeeklyMatchups ==
    /\ pc = "input"
    /\ bench_matchups' = create_weekly_matchups(weekly_results, week, sleeper_matchups)
    /\ pc' = "done"
    /\ UNCHANGED << week, weekly_results, sleeper_matchups, benchVars, seasonVars,
                    pointsVars, lookupVars, weekVars,
                    systemVars >>

NextPair == CreateWeeklyMatchups

SpecPair == InitPair /\ [][NextPair]_vars

\* The records of platform group mid that carry a roster id (indexes)
GroupIndexes(mid) ==
    {i \in DOMAIN sleeper_matchups :
        sleeper_matchups[i].matchup_id = mid /\ sleeper_matchups[i].roster_id # 0}

\* The roster listed first / last in platform group mid
FirstListed(mid) ==
    sleeper_matchups[CHOOSE i \in GroupIndexes(mid) : \A j \in GroupIndexes(mid) : i <= j].roster_id

LastListed(mid) ==
    sleeper_matchups[CHOOSE i \in GroupIndexes(mid) : \A j \in GroupIndexes(mid) : i >= j].roster_id

HasResult(r) == \E i \in DOMAIN weekly_results : weekly_results[i].roster_id = r

PointsOf(r) ==
    weekly_results[CHOOSE i \in DOMAIN weekly_results : weekly_results[i].roster_id = r].total_bench_points

\* C2: in every matchup paired from the week's results the side with the
\* strictly greater total wins by the difference of the totals, and on equal
\* totals the side listed first in the platform group wins with margin 0.
C2_WinnerAndMargin ==
    pc = "done" =>
        \A k \in DOMAIN bench_matchups :
            LET m      == bench_matchups[k]
                first  == FirstListed(m.matchup_id)
                second == LastListed(m.matchup_id)
                p1     == PointsOf(first)
                p2     == PointsOf(second)
            IN  /\ p1 > p2 => m.winner_roster_id = first /\ m.margin_of_victory = p1 - p2
                /\ p2 > p1 => m.winner_roster_id = second /\ m.margin_of_victory = p2 - p1
                /\ p1 = p2 => m.winner_roster_id = first /\ m.margin_of_victory = 0

C2_Witness ==
    /\ pc = "done"
    /\ \E k \in DOMAIN bench_matchups :
          LET m == bench_matchups[k]
          IN  /\ m.team1_bench_points = m.team2_bench_points
              /\ m.team1_roster_id > m.team2_roster_id
              /\ m.winner_roster_id = m.team1_roster_id

\* C3: every matchup produced has a winner that is one of its two sides, a
\* non-negative margin equal to the absolute difference of the two sides'
\* bench points, and, when the margin is positive, a winner with strictly
\* more bench points than the other side.
C3_MatchupWellFormed ==
    \A k \in DOMAIN bench_matchups :
        LET m == bench_matchups[k]
            winner_points == IF m.winner_roster_id = m.team1_roster_id
                             THEN m.team1_bench_points ELSE m.team2_bench_points
            other_points  == IF m.winner_roster_id = m.team1_roster_id
                             THEN m.team2_bench_points ELSE m.team1_bench_points
        IN  /\ m.winner_roster_id \in {m.team1_roster_id, m.team2_roster_id}
            /\ m.margin_of_victory >= 0
            /\ m.margin_of_victory = Abs(m.team1_bench_points - m.team2_bench_points)
            /\ m.margin_of_victory > 0 => winner_points > other_points

C3_Witness ==
    /\ pc = "done"
    /\ \E k \in DOMAIN bench_matchups :
          LET m == bench_matchups[k]
          IN  /\ m.margin_of_victory > 0
              /\ m.winner_roster_id = m.team2_roster_id
              /\ m.team2_bench_points > m.team1_bench_points

MatchupsOfGroup(mid) ==
    {k \in DOMAIN bench_matchups : bench_matchups[k].matchup_id = mid}

\* C10: a platform group contributes a matchup only if it holds exactly two
\* roster ids: a group of any other size contributes none, and a group of
\* exactly two roster ids that both have weekly results contributes exactly one.
C10_OnlyGroupsOfTwo ==
    pc = "done" =>
        /\ \A k \in DOMAIN bench_matchups : bench_matchups[k].matchup_id \in 1..MaxMatchupId
        /\ \A mid \in 1..MaxMatchupId :
              LET size == Cardinality(GroupIndexes(mid))
              IN  /\ size # 2 => MatchupsOfGroup(mid) = {}
                  /\ (size = 2 /\ HasResult(FirstListed(mid)) /\ HasResult(LastListed(mid)))
                        => Cardinality(MatchupsOfGroup(mid)) = 1

C10_Witness ==
    /\ pc = "done"
    /\ \E mid \in 1..MaxMatchupId :
          /\ Cardinality(GroupIndexes(mid)) = 3
          /\ \A i \in GroupIndexes(mid) : HasResult(sleeper_matchups[i].roster_id)
          /\ MatchupsOfGroup(mid) = {}

\* C11: a platform group of two roster ids yields a matchup only if both
\* roster ids have a weekly result in the list passed for the week: every
\* matchup produced has a result on both sides, and a group of two with a
\* side that has no result yields no matchup, while the call still returns
\* (the other groups keep their matchups).
C11_BothResultsRequired ==
    pc = "done" =>
        /\ \A k \in DOMAIN bench_matchups :
              /\ HasResult(bench_matchups[k].team1_roster_id)
              /\ HasResult(bench_matchups[k].team2_roster_id)
        /\ \A mid \in 1..MaxMatchupId :
              (/\ Cardinality(GroupIndexes(mid)) = 2
               /\ ~(HasResult(FirstListed(mid)) /\ HasResult(LastListed(mid))))
                  => MatchupsOfGroup(mid) = {}

C11_Witness ==
    /\ pc = "done"
    /\ \E mid \in 1..MaxMatchupId :
          /\ Cardinality(GroupIndexes(mid)) = 2
          /\ HasResult(FirstListed(mid))
          /\ ~HasResult(LastListed(mid))
          /\ MatchupsOfGroup(mid) = {}
    /\ weekly_results # << >>

----------------------------------------------------------------------------
(* bench_data_manager.py: BenchDataManager.update_season_records and       *)
(* BenchDataManager.calculate_season_standings                             *)

\* float('inf'), the initial worst_week of a team record
Infinity == 1000000000

\* Lines 213-224 and 228-239: a fresh entry of team_records
NewTeamRecord ==
    [wins |-> 0, losses |-> 0, total_points |-> 0, weeks |-> 0,
     best_week |-> 0, best_week_num |-> 0,
     worst_week |-> Infinity, worst_week_num |-> 0]

\* team_records is a dict: order holds its keys in insertion order, rec its values
EnsureRecord(tr, roster_id) ==
    IF \E i \in DOMAIN tr.order : tr.order[i] = roster_id
    THEN tr
    ELSE [order |-> Append(tr.order, roster_id),
          rec   |-> [r \in DOMAIN tr.rec \cup {roster_id} |->
                        IF r = roster_id THEN NewTeamRecord ELSE tr.rec[r]]]

\* Lines 246-249: add points and week data
AddPoints(rec, points) ==
    [rec EXCEPT !.total_points = @ + points, !.weeks = @ + 1]

\* Lines 252-257 and 259-264: update best/worst weeks
UpdateBestWorst(rec, points, wk) ==
    LET b == IF points > rec.best_week
             THEN [rec EXCEPT !.best_week = points, !.best_week_num = wk]
             ELSE rec
    IN  IF points < b.worst_week
        THEN [b EXCEPT !.worst_week = points, !.worst_week_num = wk]
        ELSE b

\* Lines 267-272: update win/loss records
UpdateWinLossWinnerIsTeam1(rec, m) ==
    [rec EXCEPT ![m.team1_roster_id].wins = @ + 1,
                ![m.team2_roster_id].losses = @ + 1]

UpdateWinLoss(rec, m) ==
    IF m.winner_roster_id = m.team1_roster_id
    THEN [rec EXCEPT ![m.team1_roster_id].wins = @ + 1,
                     ![m.team2_roster_id].losses = @ + 1]
    ELSE [rec EXCEPT ![m.team2_roster_id].wins = @ + 1,
                     ![m.team1_roster_id].losses = @ + 1]

\* Lines 210-272: the body of the loop over the matchups
RecordMatchup(tr, m) ==
    LET t1 == m.team1_roster_id
        t2 == m.team2_roster_id
        e  == EnsureRecord(EnsureRecord(tr, t1), t2)
        a1 == [e.rec EXCEPT ![t1] = AddPoints(@, m.team1_bench_points)]
        a2 == [a1 EXCEPT ![t2] = AddPoints(@, m.team2_bench_points)]
        b1 == [a2 EXCEPT ![t1] = UpdateBestWorst(@, m.team1_bench_points, m.week)]
        b2 == [b1 EXCEPT ![t2] = UpdateBestWorst(@, m.team2_bench_points, m.week)]
    IN  [order |-> e.order, rec |-> UpdateWinLoss(b2, m)]

RECURSIVE TeamRecords(_, _)
TeamRecords(tr, ms) ==
    IF ms = << >> THEN tr
    ELSE TeamRecords(RecordMatchup(tr, Head(ms)), Tail(ms))

\* Lines 276-295: a SeasonRecord; win_percentage in thousandths
SeasonRecord(roster_id, record) ==
    LET total_games == record.wins + record.losses
    IN  [roster_id |-> roster_id,
         wins |-> record.wins,
         losses |-> record.losses,
         win_percentage |-> IF total_games > 0
                            THEN RoundDiv(1000 * record.wins, total_games) ELSE 0,
         total_bench_points |-> record.total_points,
         average_bench_points |-> IF record.weeks > 0
                                  THEN RoundDiv(record.total_points, record.weeks) ELSE 0,
         best_week_points |-> record.best_week,
         best_week_number |-> record.best_week_num,
         worst_week_points |-> IF record.worst_week # Infinity THEN record.worst_week ELSE 0,
         worst_week_number |-> record.worst_week_num]

update_season_records(ms) ==
    IF ms = << >> THEN << >>
    ELSE LET tr == TeamRecords([order |-> << >>, rec |-> << >>], ms)
         IN  [i \in DOMAIN tr.order |-> SeasonRecord(tr.order[i], tr.rec[tr.order[i]])]

\* Lines 309-312 and 330: team_weekly_data.get(roster_id, [])
WeeklyData(wr, roster_id) ==
    SelectSeq(wr, LAMBDA res : res.roster_id = roster_id)

\* Lines 338-354: a SeasonBenchStandings
SeasonBenchStandings(record, weekly_data) ==
    [roster_id |-> record.roster_id,
     total_weeks |-> Len(weekly_data),
     wins |-> record.wins,
     losses |-> record.losses,
     win_percentage |-> record.win_percentage,
     total_bench_points |-> record.total_bench_points,
     average_bench_points |-> record.average_bench_points,
     best_week_points |-> record.best_week_points,
     best_week_number |-> record.best_week_number,
     worst_week_points |-> record.worst_week_points,
     worst_week_number |-> record.worst_week_number]

\* Line 358: the sort key (win_percentage, total_bench_points), compared as tuples
KeyLessWinPercentageOnly(a, b) ==
    a.win_percentage < b.win_percentage

KeyLess(a, b) ==
    \/ a.win_percentage < b.win_percentage
    \/ /\ a.win_percentage = b.win_percentage
       /\ a.total_bench_points < b.total_bench_points

\* Line 358: list.sort(reverse=True) is stable: x goes behind every element
\* whose key is not less than its own
RECURSIVE InsertDescending(_, _)
InsertDescending(sorted, x) ==
    IF sorted = << >> THEN << x >>
    ELSE IF KeyLess(Head(sorted), x)
         THEN << x >> \o sorted
         ELSE << Head(sorted) >> \o InsertDescending(Tail(sorted), x)

RECURSIVE SortDescending(_, _)
SortDescending(sorted, rest) ==
    IF rest = << >> THEN sorted
    ELSE SortDescending(InsertDescending(sorted, Head(rest)), Tail(rest))

calculate_season_standings(wr, ms) ==
    IF wr = << >> /\ ms = << >> THEN << >>
    ELSE LET season_records == update_season_records(ms)
             unsorted == [i \in DOMAIN season_records |->
                            SeasonBenchStandings(season_records[i],
                                                 WeeklyData(wr, season_records[i].roster_id))]
         IN  SortDescending(<< >>, unsorted)

\* The matchup create_weekly_matchups builds in week w for the group mid of
\* r1 (listed first, p1 points) and r2 (p2 points)
PairedMatchup(w, mid, r1, p1, r2, p2) ==
    Head(create_weekly_matchups(
            << WeeklyBenchResult(w, r1, p1), WeeklyBenchResult(w, r2, p2) >>, w,
            << SleeperRecord(r1, mid), SleeperRecord(r2, mid) >>))

\* The matchup lists one week can contribute: no roster on two sides
WeekMatchupLists(w) ==
    LET Sides == {sd \in [r1 : Rosters, p1 : PointValues,
                          r2 : Rosters, p2 : PointValues] : sd.r1 # sd.r2}
        Lists == {l \in SeqsUpTo(Sides, NumRosters \div 2) :
                     \A i, j \in DOMAIN l :
                        i # j => {l[i].r1, l[i].r2} \cap {l[j].r1, l[j].r2} = {}}
    IN  {[k \in DOMAIN l |-> PairedMatchup(w, k, l[k].r1, l[k].p1, l[k].r2, l[k].p2)] :
            l \in Lists}

\* main, lines 144-145: nothing accumulated yet; week is the next week to process
InitSeason ==
    /\ pc = "input"
    /\ week = 1
    /\ all_results = << >>
    /\ all_matchups = << >>
    /\ standings = << >>
    /\ weekly_results = << >>
    /\ sleeper_matchups = << >>
    /\ bench_matchups = << >>
    /\ IdleBench
    /\ IdlePoints
    /\ IdleLookup
    /\ IdleWeek
    /\ IdleSystem

\* The two lists grow by the results and by the matchups of the next week.
\* In main (lines 147-154) both stem from the same fetch_week_data call; in
\* generate_reports_only (lines 245-255) they are read from the latest
\* results file and the latest matchups file, which are picked independently
\* and may stem from different runs: the week's results and the week's
\* matchups are therefore drawn independently.  A week that failed or had no
\* data adds nothing.
AccumulateWeek ==
    /\ pc = "input"
    /\ week <= NumWeeks
    /\ \E wr \in WeeklyResultLists(week), ms \in WeekMatchupLists(week) :
          /\ all_results' = all_results \o wr
          /\ all_matchups' = all_matchups \o ms
    /\ week' = week + 1
    /\ UNCHANGED << pc, standings, weekly_results, sleeper_matchups, bench_matchups,
                    benchVars, pointsVars, lookupVars, weekVars,
                    systemVars >>

CalculateSeasonStandings ==
    /\ pc = "input"
    /\ standings' = calculate_season_standings(all_results, all_matchups)
    /\ pc' = "done"
    /\ UNCHANGED << all_results, all_matchups, benchVars, pairVars,
                    pointsVars, lookupVars, weekVars,
                    systemVars >>

NextSeason ==
    \/ AccumulateWeek
    \/ CalculateSeasonStandings

SpecSeason == InitSeason /\ [][NextSeason]_vars

----------------------------------------------------------------------------
(* Claims about the season aggregation *)

SidesOf(m) == {m.team1_roster_id, m.team2_roster_id}

MatchupsWonBy(r) ==
    {k \in DOMAIN all_matchups : all_matchups[k].winner_roster_id = r}

MatchupsLostBy(r) ==
    {k \in DOMAIN all_matchups :
        r \in SidesOf(all_matchups[k]) /\ all_matchups[k].winner_roster_id # r}

MatchupsOf(r) == {k \in DOMAIN all_matchups : r \in SidesOf(all_matchups[k])}

ResultsOf(r) == {i \in DOMAIN all_results : all_results[i].roster_id = r}

InStandings(r) == \E i \in DOMAIN standings : standings[i].roster_id = r

RECURSIVE SumPoints(_)
SumPoints(idx) ==
    IF idx = {} THEN 0
    ELSE LET i == CHOOSE x \in idx : TRUE
         IN  all_results[i].total_bench_points + SumPoints(idx \ {i})

\* The data of one run: every side of every matchup has a weekly result of
\* that week with the same total
SameRunData ==
    \A k \in DOMAIN all_matchups :
        LET m == all_matchups[k]
        IN  /\ \E i \in DOMAIN all_results :
                  /\ all_results[i].week = m.week
                  /\ all_results[i].roster_id = m.team1_roster_id
                  /\ all_results[i].total_bench_points = m.team1_bench_points
            /\ \E i \in DOMAIN all_results :
                  /\ all_results[i].week = m.week
                  /\ all_results[i].roster_id = m.team2_roster_id
                  /\ all_results[i].total_bench_points = m.team2_bench_points

\* No bye: every weekly result belongs to a side of a matchup of that week
EveryResultPaired ==
    \A i \in DOMAIN all_results :
        \E k \in DOMAIN all_matchups :
            /\ all_matchups[k].week = all_results[i].week
            /\ all_results[i].roster_id \in SidesOf(all_matchups[k])

\* C4: after the aggregation each roster's wins are the matchups it won and
\* its losses are the matchups it is a side of and did not win; every side
\* of a matchup has such a record and no other roster has one.
C4_WinsAndLosses ==
    pc = "done" =>
        /\ \A i \in DOMAIN standings :
              /\ standings[i].wins = Cardinality(MatchupsWonBy(standings[i].roster_id))
              /\ standings[i].losses = Cardinality(MatchupsLostBy(standings[i].roster_id))
        /\ \A r \in Rosters : InStandings(r) <=> MatchupsOf(r) # {}

C4_Witness ==
    /\ pc = "done"
    /\ \E k \in DOMAIN all_matchups :
          all_matchups[k].winner_roster_id = all_matchups[k].team2_roster_id
    /\ \E i \in DOMAIN standings : standings[i].wins = 1 /\ standings[i].losses = 1
    /\ \E r \in Rosters : ~InStandings(r)

\* C5: for every roster in the standings total_bench_points is the sum of
\* the totals of its weekly results and average_bench_points is that total
\* divided by total_weeks, the number of its weekly results (to the nearest
\* hundredth).  Stated on the data of one run.
C5_TotalAndAverageFromWeeklyResults ==
    (pc = "done" /\ SameRunData) =>
        \A i \in DOMAIN standings :
            LET s     == standings[i]
                total == SumPoints(ResultsOf(s.roster_id))
                n     == Cardinality(ResultsOf(s.roster_id))
            IN  /\ s.total_weeks = n
                /\ s.total_bench_points = total
                /\ n > 0 => 2 * Abs(s.average_bench_points * n - total) <= n

\* The weekly result of roster r at which its best (sign = 1) or worst
\* (sign = -1) total is first seen in processing order
FirstExtreme(r, sign) ==
    CHOOSE i \in ResultsOf(r) :
        /\ \A j \in ResultsOf(r) :
              sign * all_results[j].total_bench_points <= sign * all_results[i].total_bench_points
        /\ \A j \in ResultsOf(r) :
              all_results[j].total_bench_points = all_results[i].total_bench_points => i <= j

\* C6: for every roster in the standings best_week_points / worst_week_points
\* is the maximum / minimum of its weekly totals and best_week_number /
\* worst_week_number is the week in which that value is first seen, whatever
\* the point values, all-zero weeks included.  Stated on the data of one run
\* in which every weekly result is paired in a matchup.
C6_BestAndWorstWeek ==
    (pc = "done" /\ SameRunData /\ EveryResultPaired) =>
        \A i \in DOMAIN standings :
            LET s     == standings[i]
                best  == all_results[FirstExtreme(s.roster_id, 1)]
                worst == all_results[FirstExtreme(s.roster_id, -1)]
            IN  /\ s.best_week_points = best.total_bench_points
                /\ s.best_week_number = best.week
                /\ s.worst_week_points = worst.total_bench_points
                /\ s.worst_week_number = worst.week

\* C7: the standings are ordered by win_percentage descending and, among
\* equal win_percentage, by total_bench_points descending.
C7_StandingsOrdered ==
    pc = "done" =>
        \A i, j \in DOMAIN standings :
            i < j =>
                \/ standings[i].win_percentage > standings[j].win_percentage
                \/ /\ standings[i].win_percentage = standings[j].win_percentage
                   /\ standings[i].total_bench_points >= standings[j].total_bench_points

\* The roster ids of the season records in the order update_season_records
\* returns them, before the sort
FirstSeenOrder == update_season_records(all_matchups)

C7_Witness ==
    /\ pc = "done"
    /\ Len(standings) = 3
    /\ standings[1].win_percentage > standings[2].win_percentage
    /\ standings[2].win_percentage = standings[3].win_percentage
    /\ standings[2].total_bench_points > standings[3].total_bench_points
    /\ FirstSeenOrder[1].roster_id = standings[3].roster_id

\* C8: a roster that has weekly results and is a side of no matchup appears
\* in the standings with win_percentage 0.
C8_ByeOnlyRosterListed ==
    pc = "done" =>
        \A r \in Rosters :
            (ResultsOf(r) # {} /\ MatchupsOf(r) = {}) =>
                \E i \in DOMAIN standings :
                    standings[i].roster_id = r /\ standings[i].win_percentage = 0

\* C9: a roster that has no weekly result does not appear in the standings,
\* even when it is a side of one or more matchups.
C9_NoResultsNotListed ==
    pc = "done" =>
        \A r \in Rosters : ResultsOf(r) = {} => ~InStandings(r)

----------------------------------------------------------------------------
(* player_lookup.py: PlayerLookup *)

\* Line 134: a snapshot older than 86400 seconds is stale; the clock counts days
CacheMaxAge == 1

MaxClock == 2             \* the clock runs from 0 to MaxClock
NumCatalogPlayers == 2    \* the provider's catalogue holds ids 1..NumCatalogPlayers

CatalogIds == 1..NumCatalogPlayers

\* A player name by its parts: first and last name, or a full name, or the
\* id of the player whose placeholder name f'Player_{id}' it is
PlayerName(first, last, full, id) ==
    [first_name |-> first, last_name |-> last, full_name |-> full, placeholder_of |-> id]

PlaceholderName(player_id) == PlayerName("", "", "", player_id)

PlayerInfo(player_id, name, position, team) ==
    [player_id |-> player_id, name |-> name, position |-> position, team |-> team]

\* lookup_player_info returning None
NoInfo == PlayerInfo(0, PlayerName("", "", "", 0), "", "")

\* What the provider holds for one player; "" is a missing key.  The third
\* entry has no name at all.
RawEntries ==
    {[first_name |-> "Pat", last_name |-> "Doe", full_name |-> "Pat Doe",
      position |-> "QB", team |-> "KC"],
     [first_name |-> "", last_name |-> "", full_name |-> "Pat Doe",
      position |-> "", team |-> ""],
     [first_name |-> "", last_name |-> "", full_name |-> "",
      position |-> "QB", team |-> "KC"]}

\* The provider's raw catalogues over the player ids P
RawCatalogs(P) == UNION {[S -> RawEntries] : S \in SUBSET P}

\* The outcome of the request of line 46: an error or a raw catalogue
RemoteOutcomes(P) ==
    {[ok |-> FALSE, players |-> EmptyMap]}
        \cup {[ok |-> TRUE, players |-> c] : c \in RawCatalogs(P)}

\* Lines 58-63 and 71: name, position and team of one raw entry
FetchedInfo(player_id, player_data) ==
    LET composed == player_data.first_name # "" \/ player_data.last_name # ""
        name == IF composed
                THEN PlayerName(player_data.first_name, player_data.last_name, "", 0)
                ELSE IF player_data.full_name # ""
                     THEN PlayerName("", "", player_data.full_name, 0)
                     ELSE PlaceholderName(player_id)
        position == IF player_data.position = "" THEN "UNK" ELSE player_data.position
        team == IF player_data.team = "" THEN "FA" ELSE player_data.team
    IN  PlayerInfo(player_id, name, position, team)

\* Lines 53-72: players_dict, the entries with a name of their own
FetchedPlayers(raw_players) ==
    LET valid == {p \in DOMAIN raw_players :
                    FetchedInfo(p, raw_players[p]).name # PlaceholderName(p)}
    IN  [p \in valid |-> FetchedInfo(p, raw_players[p])]

Snapshot(t, players) == [kind |-> "snapshot", timestamp |-> t, players |-> players]

Unreadable == [kind |-> "unreadable", timestamp |-> 0, players |-> EmptyMap]

\* Lines 126-152: {} for a missing or unreadable file and for a stale snapshot
load_cached_players_any_age(file, t) ==
    IF file.kind # "snapshot" THEN EmptyMap ELSE file.players

load_cached_players(file, t) ==
    IF file.kind # "snapshot" THEN EmptyMap
    ELSE LET cache_age == t - file.timestamp
         IN  IF cache_age > CacheMaxAge THEN EmptyMap ELSE file.players

\* Lines 98-124: the snapshot written at time t
cache_player_data(pl, players_dict, t) ==
    [pl EXCEPT !.cache_file = Snapshot(t, players_dict),
               !.io_log = Append(@, "write")]

\* Lines 43-89: the request and what follows it.  pl is the PlayerLookup
\* object together with the cache file, the log of its disk and network
\* operations, the value returned (ret) and whether an exception leaves the
\* call (raised).
fetch_players_unguarded(pl, t, remote, cfg) ==
    IF ~remote.ok
    THEN [pl EXCEPT !.io_log = Append(@, "fetch_failed"), !.raised = TRUE]
    ELSE LET players_dict == FetchedPlayers(remote.players)
             fetched == [pl EXCEPT !.players_cache = players_dict,
                                   !.cache_loaded = TRUE,
                                   !.obtained_at = {t},
                                   !.io_log = Append(@, "fetch_ok"),
                                   !.ret = players_dict]
         IN  IF cfg THEN cache_player_data(fetched, players_dict, t) ELSE fetched

fetch_players(pl, t, remote, cfg) ==
    IF ~remote.ok
    THEN [pl EXCEPT !.io_log = Append(@, "fetch_failed"), !.ret = EmptyMap]
    ELSE LET players_dict == FetchedPlayers(remote.players)
             fetched == [pl EXCEPT !.players_cache = players_dict,
                                   !.cache_loaded = TRUE,
                                   !.obtained_at = {t},
                                   !.io_log = Append(@, "fetch_ok"),
                                   !.ret = players_dict]
         IN  IF cfg THEN cache_player_data(fetched, players_dict, t) ELSE fetched

\* Lines 26-42, then the request
get_all_players(pl, t, remote, cfg) ==
    IF pl.cache_loaded /\ DOMAIN pl.players_cache # {}
    THEN [pl EXCEPT !.ret = pl.players_cache]
    ELSE LET exists == pl.cache_file.kind # "absent"
             cached_players == IF exists THEN load_cached_players(pl.cache_file, t)
                               ELSE EmptyMap
             tried == IF exists THEN [pl EXCEPT !.io_log = Append(@, "read")] ELSE pl
         IN  IF DOMAIN cached_players # {}
             THEN [tried EXCEPT !.players_cache = cached_players,
                                !.cache_loaded = TRUE,
                                !.obtained_at = {pl.cache_file.timestamp},
                                !.ret = cached_players]
             ELSE fetch_players(tried, t, remote, cfg)

\* Lines 91-96; found tells whether the id is in the map, info is what is returned
lookup_player_info(pl, player_id, t, remote, cfg) ==
    LET loaded == IF ~pl.cache_loaded THEN get_all_players(pl, t, remote, cfg) ELSE pl
    IN  [loaded EXCEPT !.found = player_id \in DOMAIN loaded.players_cache,
                       !.info = Get(loaded.players_cache, player_id, NoInfo)]

\* Lines 154-163
refresh_cache_keep_file(pl, t, remote, cfg) ==
    get_all_players([pl EXCEPT !.cache_loaded = FALSE,
                               !.players_cache = EmptyMap,
                               !.obtained_at = {},
                               !.io_log = Append(@, "clear")],
                    t, remote, cfg)

refresh_cache(pl, t, remote, cfg) ==
    LET cleared == [pl EXCEPT !.cache_loaded = FALSE,
                              !.players_cache = EmptyMap,
                              !.obtained_at = {},
                              !.io_log = Append(@, "clear")]
        removed == IF cleared.cache_file.kind # "absent"
                   THEN [cleared EXCEPT !.cache_file = NoFile,
                                        !.io_log = Append(@, "remove")]
                   ELSE cleared
    IN  get_all_players(removed, t, remote, cfg)

\* The PlayerLookup object and the cache file as a call finds them
Self ==
    [players_cache |-> players_cache, cache_loaded |-> cache_loaded,
     cache_file |-> cache_file, obtained_at |-> obtained_at,
     io_log |-> << >>, ret |-> EmptyMap, found |-> FALSE, info |-> NoInfo,
     raised |-> FALSE]

\* The cache files a new process can find at time t: none, an unreadable
\* one, or a snapshot written up to CacheMaxAge + 1 days earlier
CacheFiles(t) ==
    {NoFile, Unreadable}
        \cup {Snapshot(t - age, FetchedPlayers(c)) :
                 age \in 0..(CacheMaxAge + 1), c \in RawCatalogs(CatalogIds)}

\* Lines 21-24 and 166: the module's PlayerLookup instance after construction
InitLookup ==
    /\ pc = "input"
    /\ now = 0
    /\ cache_players \in BOOLEAN
    /\ cache_file \in CacheFiles(0)
    /\ players_cache = EmptyMap
    /\ cache_loaded = FALSE
    /\ obtained_at = {}
    /\ io_log = << >>
    /\ last_call = NoCall
    /\ IdleBench
    /\ IdlePair
    /\ IdleSeason
    /\ IdlePoints
    /\ IdleWeek
    /\ IdleSystem

\* The state a call leaves and the record of the call
Returned(pl, op, player_id) ==
    /\ players_cache' = pl.players_cache
    /\ cache_loaded' = pl.cache_loaded
    /\ cache_file' = pl.cache_file
    /\ obtained_at' = pl.obtained_at
    /\ io_log' = pl.io_log
    /\ last_call' = [op |-> op, player_id |-> player_id, at |-> now,
                     first |-> last_call.op = "none",
                     file_before |-> cache_file,
                     loaded_before |-> cache_loaded /\ DOMAIN players_cache # {},
                     obtained_before |-> obtained_at,
                     found |-> pl.found, ret |-> pl.ret]
    /\ UNCHANGED << pc, now, cache_players, benchVars, pairVars, seasonVars,
                    pointsVars, weekVars,
                    systemVars >>

LookupPlayerInfo ==
    \E player_id \in CatalogIds, remote \in RemoteOutcomes(CatalogIds) :
        /\ pc = "input"
        /\ Returned(lookup_player_info(Self, player_id, now, remote, cache_players),
                    "lookup_player_info", player_id)

GetAllPlayers ==
    \E remote \in RemoteOutcomes(CatalogIds) :
        /\ pc = "input"
        /\ Returned(get_all_players(Self, now, remote, cache_players),
                    "get_all_players", 0)

RefreshCache ==
    \E remote \in RemoteOutcomes(CatalogIds) :
        /\ pc = "input"
        /\ Returned(refresh_cache(Self, now, remote, cache_players),
                    "refresh_cache", 0)

\* Time passes between two calls
Tick ==
    /\ pc = "input"
    /\ now < MaxClock
    /\ now' = now + 1
    /\ UNCHANGED << pc, cache_players, cache_file, players_cache, cache_loaded,
                    obtained_at, io_log, last_call, benchVars, pairVars, seasonVars,
                    pointsVars, weekVars,
                    systemVars >>

NextLookup ==
    \/ LookupPlayerInfo
    \/ GetAllPlayers
    \/ RefreshCache
    \/ Tick

SpecLookup == InitLookup /\ [][NextLookup]_vars

----------------------------------------------------------------------------
(* Claims about the player cache *)

Fetched == "fetch_ok" \in Range(io_log) \/ "fetch_failed" \in Range(io_log)

FirstLookup == last_call.op = "lookup_player_info" /\ last_call.first

\* Age of the cache file the last call found
AgeBefore == last_call.at - last_call.file_before.timestamp

\* What the last lookup returned is the entry of map m, if any
AnsweredFrom(m) == last_call.found = (last_call.player_id \in DOMAIN m)

UsableBefore ==
    /\ last_call.file_before.kind = "snapshot"
    /\ AgeBefore <= CacheMaxAge
    /\ DOMAIN last_call.file_before.players # {}

FirstAt(op) ==
    IF op \in Range(io_log)
    THEN CHOOSE i \in DOMAIN io_log :
            io_log[i] = op /\ \A j \in DOMAIN io_log : io_log[j] = op => i <= j
    ELSE 0

\* C17: refresh_cache drops the in-memory map and removes the cache file
\* before it fetches: its one remote fetch comes after the clearing and the
\* removal and is never preceded by a read of the cache file; after a
\* failed fetch the instance holds an empty map, is unloaded, and there is
\* no cache file.
C17_RefreshDiscardsFirst ==
    last_call.op = "refresh_cache" =>
        /\ "read" \notin Range(io_log)
        /\ Cardinality({i \in DOMAIN io_log :
                          io_log[i] \in {"fetch_ok", "fetch_failed"}}) = 1
        /\ FirstAt("clear") = 1
        /\ last_call.file_before.kind # "absent" => FirstAt("remove") = 2
        /\ \A i \in DOMAIN io_log :
              io_log[i] \in {"fetch_ok", "fetch_failed"} =>
                  FirstAt("clear") < i /\ FirstAt("remove") < i
        /\ "fetch_failed" \in Range(io_log) =>
              /\ players_cache = EmptyMap
              /\ ~cache_loaded
              /\ cache_file = NoFile

C17_Witness ==
    /\ last_call.op = "refresh_cache"
    /\ last_call.loaded_before
    /\ last_call.file_before.kind = "snapshot"
    /\ last_call.at - last_call.file_before.timestamp <= CacheMaxAge
    /\ DOMAIN last_call.file_before.players # {}
    /\ "fetch_failed" \in Range(io_log)
    /\ players_cache = EmptyMap
    /\ cache_file = NoFile

\* C18: a lookup made when the player map in use was obtained more than 24
\* hours earlier, be it read from disk or fetched, fetches again.
C18_ExpiredMapRefetched ==
    (/\ last_call.op = "lookup_player_info"
     /\ last_call.loaded_before
     /\ \E t \in last_call.obtained_before : last_call.at - t > CacheMaxAge)
        => Fetched

----------------------------------------------------------------------------
(* bench_scorer.py: BenchScorer.process_week_bench_scores                  *)

NumRecords == 2      \* most per-roster records in a week's matchup data
MaxStarters == 1     \* longest starters list of a week's record

BenchPlayer(player_id, player_name, position, team, points, wk, roster_id, owner_id) ==
    [player_id |-> player_id, player_name |-> player_name, position |-> position,
     team |-> team, points |-> points, week |-> wk, roster_id |-> roster_id,
     owner_id |-> owner_id]

\* WeeklyBenchResult with every field but date_recorded; total_bench_points
\* in hundredths, each player's points in thousandths
WeeklyTeamResult(wk, roster_id, owner_id, team_name, bench_players, total) ==
    [week |-> wk, roster_id |-> roster_id, owner_id |-> owner_id,
     team_name |-> team_name, bench_players |-> bench_players,
     total_bench_points |-> total, bench_player_count |-> Len(bench_players)]

\* One record of the week's matchup data; roster_id 0 is a missing id
MatchupRecord(roster_id, players, st, pp) ==
    [roster_id |-> roster_id, players |-> players, starters |-> st,
     players_points |-> pp]

\* One roster of league.get_rosters(); owner_id NoText is None
RosterEntry(roster_id, owner_id, reserve) ==
    [roster_id |-> roster_id, owner_id |-> owner_id, reserve |-> reserve]

\* get_rosters.py 22-28 with a users listing that names user u "User_u"
get_roster_owners(rs) ==
    LET owned == {i \in DOMAIN rs : rs[i].roster_id # 0 /\ rs[i].owner_id # NoText}
        last(r) == CHOOSE i \in owned :
                      /\ rs[i].roster_id = r
                      /\ \A j \in owned : rs[j].roster_id = r => j <= i
    IN  [r \in {rs[i].roster_id : i \in owned} |-> << "User_" >> \o rs[last(r)].owner_id]

\* Lines 162-167 and 182: roster_reserve_map.get(roster_id, [])
ReservePlayers(rs, roster_id) ==
    LET listed == {i \in DOMAIN rs : rs[i].roster_id = roster_id}
    IN  IF roster_id = 0 \/ listed = {} THEN << >>
        ELSE rs[CHOOSE i \in listed : \A j \in listed : j <= i].reserve

\* Lines 194-205
OwnerId(rs, roster_id) ==
    LET listed == {i \in DOMAIN rs : rs[i].roster_id = roster_id}
        owner_id == IF listed = {} THEN NoText
                    ELSE rs[CHOOSE i \in listed : \A j \in listed : i <= j].owner_id
    IN  IF owner_id = NoText THEN << "owner_" >> \o IntToText(roster_id)
        ELSE owner_id

\* list(set): the ids of a set in the order the interpreter's hashing gives,
\* which is the order of perm
ListInOrder(S, perm) == SelectSeq(perm, LAMBDA p : p \in S)

\* The entry of one bench id with its points kept to two decimals
NewBenchPlayerTwoDecimals(looked, player_id, points, wk, roster_id, owner_id) ==
    LET value == IF IsNumber(points) THEN 10 * Round2(points.value) ELSE 0
    IN  IF looked.found
        THEN BenchPlayer(player_id, looked.info.name, looked.info.position,
                         looked.info.team, value, wk, roster_id, owner_id)
        ELSE BenchPlayer(player_id, PlaceholderName(player_id), "UNK", "UNK",
                         value, wk, roster_id, owner_id)

\* Lines 211-234: the entry of one bench id, looked being the PlayerLookup
\* object after lookup_player_info(player_id)
NewBenchPlayer(looked, player_id, points, wk, roster_id, owner_id) ==
    LET value == IF IsNumber(points) THEN points.value ELSE 0
    IN  IF looked.found
        THEN BenchPlayer(player_id, looked.info.name, looked.info.position,
                         looked.info.team, value, wk, roster_id, owner_id)
        ELSE BenchPlayer(player_id, PlaceholderName(player_id), "UNK", "UNK",
                         value, wk, roster_id, owner_id)

\* Lines 208-236: the entries after bench_players for the remaining ids
RECURSIVE BenchPlayers(_, _, _, _, _, _, _, _, _, _)
RECURSIVE BenchPlayersAfter(_, _, _, _, _, _, _, _, _, _)
BenchPlayers(ids, pp, wk, roster_id, owner_id, pl, t, remote, cfg, bench_players) ==
    IF ids = << >> THEN [bench_players |-> bench_players, pl |-> pl]
    ELSE BenchPlayersAfter(lookup_player_info(pl, Head(ids), t, remote, cfg),
                           ids, pp, wk, roster_id, owner_id, t, remote, cfg,
                           bench_players)

BenchPlayersAfter(looked, ids, pp, wk, roster_id, owner_id, t, remote, cfg, bench_players) ==
    BenchPlayers(Tail(ids), pp, wk, roster_id, owner_id, looked, t, remote, cfg,
                 Append(bench_players,
                        NewBenchPlayer(looked, Head(ids),
                                       Get(pp, Head(ids), Number(0)),
                                       wk, roster_id, owner_id)))

\* Lines 239-250: the weekly result of one record and the PlayerLookup object
\* after its lookups
NewWeeklyResult(matchup, wk, owner_id, owners, made, total) ==
    [results |-> << WeeklyTeamResult(wk, matchup.roster_id, owner_id,
                        Get(owners, matchup.roster_id, DefaultTeamName(matchup.roster_id)),
                        made.bench_players, total) >>,
     pl |-> made.pl]

\* Lines 188-250 for one record with its bench ids
ScoreBench(matchup, bench_ids, owner_id, wk, owners, pl, t, remote, cfg) ==
    NewWeeklyResult(matchup, wk, owner_id, owners,
                    BenchPlayers(bench_ids, matchup.players_points, wk,
                                 matchup.roster_id, owner_id, pl, t, remote, cfg,
                                 << >>),
                    calculate_bench_points(bench_ids, matchup.players_points))

\* Lines 171-250 for one record, every record taken: the weekly results it
\* adds and the PlayerLookup object afterwards
ScoreRecordWithoutId(matchup, wk, rs, owners, pl, t, remote, cfg, perm) ==
    ScoreBench(matchup,
               ListInOrder(identify_bench_players(matchup.players, matchup.starters,
                               ReservePlayers(rs, matchup.roster_id)), perm),
               OwnerId(rs, matchup.roster_id), wk, owners, pl, t, remote, cfg)

\* Lines 171-250 for one record
ScoreRecord(matchup, wk, rs, owners, pl, t, remote, cfg, perm) ==
    IF matchup.roster_id = 0 THEN [results |-> << >>, pl |-> pl]
    ELSE ScoreRecordWithoutId(matchup, wk, rs, owners, pl, t, remote, cfg, perm)

\* Lines 169-250: the results after weekly_results for the remaining records
RECURSIVE ScoreRecords(_, _, _, _, _, _, _, _, _, _)
RECURSIVE ScoreRecordsAfter(_, _, _, _, _, _, _, _, _, _)
ScoreRecords(ms, wk, rs, owners, pl, t, remote, cfg, perm, results) ==
    IF ms = << >> THEN [results |-> results, pl |-> pl]
    ELSE ScoreRecordsAfter(ScoreRecord(Head(ms), wk, rs, owners, pl, t, remote, cfg, perm),
                           ms, wk, rs, owners, t, remote, cfg, perm, results)

ScoreRecordsAfter(scored, ms, wk, rs, owners, t, remote, cfg, perm, results) ==
    ScoreRecords(Tail(ms), wk, rs, owners, scored.pl, t, remote, cfg, perm,
                 results \o scored.results)

\* Lines 252-257: the list is returned unless an exception ended the loop
WeekOutcome(scored) ==
    IF scored.pl.raised
    THEN [results |-> << >>, pl |-> scored.pl, error |-> TRUE]
    ELSE [results |-> scored.results, pl |-> scored.pl, error |-> FALSE]

\* Lines 152-257 after the week's matchups ms and the rosters rs were fetched
process_week_bench_scores(wk, ms, rs, owners, pl, t, remote, cfg, perm) ==
    IF ms = << >> THEN [results |-> << >>, pl |-> pl, error |-> FALSE]
    ELSE WeekOutcome(ScoreRecords(ms, wk, rs, owners, pl, t, remote, cfg, perm, << >>))

----------------------------------------------------------------------------
(* bench_data_manager.py: save_weekly_results and load_historical_data;    *)
(* a cell of the CSV file is text, its detail cell a JSON document         *)

\* repr(float) and float(text) for a value of v / unit, unit a power of ten
RECURSIVE FractionDigits(_, _)
FractionDigits(f, unit) ==
    IF unit = 1 THEN << >>
    ELSE << Digit(f \div (unit \div 10)) >>
             \o FractionDigits(f % (unit \div 10), unit \div 10)

RECURSIVE StripZeros(_)
StripZeros(text) ==
    IF Len(text) > 1 /\ text[Len(text)] = "0"
    THEN StripZeros(SubSeq(text, 1, Len(text) - 1))
    ELSE text

FloatToText(v, unit) ==
    IntToText(v \div unit) \o << "." >> \o StripZeros(FractionDigits(v % unit, unit))

RECURSIVE FractionValue(_, _)
FractionValue(text, unit) ==
    IF text = << >> \/ unit = 1 THEN 0
    ELSE DigitValue(Head(text)) * (unit \div 10) + FractionValue(Tail(text), unit \div 10)

DotsOf(text) == {i \in DOMAIN text : text[i] = "."}

IsFloatText(text) ==
    \/ IsDigits(text)
    \/ /\ Cardinality(DotsOf(text)) = 1
       /\ LET dot == CHOOSE i \in DotsOf(text) : TRUE
          IN  /\ IsDigits(SubSeq(text, 1, dot - 1))
              /\ IsDigits(SubSeq(text, dot + 1, Len(text)))

TextToFloat(text, unit) ==
    IF DotsOf(text) = {} THEN TextToInt(text) * unit
    ELSE LET dot == CHOOSE i \in DotsOf(text) : TRUE
         IN  TextToInt(SubSeq(text, 1, dot - 1)) * unit
                 + FractionValue(SubSeq(text, dot + 1, Len(text)), unit)

\* Lines 46-55
BenchDetail(bench_players) ==
    [i \in DOMAIN bench_players |->
        [player_id |-> bench_players[i].player_id,
         name |-> bench_players[i].player_name,
         position |-> bench_players[i].position,
         team |-> bench_players[i].team,
         points |-> bench_players[i].points]]

\* json.dumps with each points rounded to two places, as
\* json_exporter.export_weekly_results writes them
JsonDumpsRounded(bench_detail) ==
    [i \in DOMAIN bench_detail |->
        [bench_detail[i] EXCEPT !.points = FloatToText(10 * Round2(@), 1000)]]

\* json.dumps and json.loads of the detail list: text stays, a number is
\* written as its repr
JsonDumps(bench_detail) ==
    [i \in DOMAIN bench_detail |->
        [bench_detail[i] EXCEPT !.points = FloatToText(@, 1000)]]

JsonLoads(document) ==
    [i \in DOMAIN document |->
        [document[i] EXCEPT !.points = TextToFloat(@, 1000)]]

\* Lines 57-66
CsvRow(result) ==
    [week |-> IntToText(result.week),
     roster_id |-> IntToText(result.roster_id),
     owner_id |-> result.owner_id,
     team_name |-> result.team_name,
     total_bench_points |-> FloatToText(result.total_bench_points, 100),
     bench_player_count |-> IntToText(result.bench_player_count),
     bench_players_detail |-> JsonDumps(BenchDetail(result.bench_players))]

\* Lines 29-73
save_weekly_results(csv, results) ==
    IF results = << >> THEN csv
    ELSE [exists |-> TRUE, rows |-> [i \in DOMAIN results |-> CsvRow(results[i])]]

\* Lines 128-141
LoadedBenchPlayers(row) ==
    LET bench_detail == JsonLoads(row.bench_players_detail)
    IN  [i \in DOMAIN bench_detail |->
            BenchPlayer(bench_detail[i].player_id, bench_detail[i].name,
                        bench_detail[i].position, bench_detail[i].team,
                        bench_detail[i].points, TextToInt(row.week),
                        TextToInt(row.roster_id), row.owner_id)]

\* Lines 146-156
LoadedResult(row) ==
    [week |-> TextToInt(row.week),
     roster_id |-> TextToInt(row.roster_id),
     owner_id |-> row.owner_id,
     team_name |-> row.team_name,
     bench_players |-> LoadedBenchPlayers(row),
     total_bench_points |-> TextToFloat(row.total_bench_points, 100),
     bench_player_count |-> TextToInt(row.bench_player_count)]

\* int() and float() accept every cell of the row
RowConverts(row) ==
    /\ IsDigits(row.week)
    /\ IsDigits(row.roster_id)
    /\ IsDigits(row.bench_player_count)
    /\ IsFloatText(row.total_bench_points)

\* Lines 113-164
load_historical_data(csv) ==
    IF ~csv.exists THEN << >>
    ELSE IF \E i \in DOMAIN csv.rows : ~RowConverts(csv.rows[i]) THEN << >>
    ELSE [i \in DOMAIN csv.rows |-> LoadedResult(csv.rows[i])]

----------------------------------------------------------------------------
(* One week of a run: process_week_bench_scores, then the results saved    *)
(* and read back                                                            *)

WeekPointValues == {1234}         \* a numeric score of the week: 1.234 points

WeekTables(P) ==
    UNION {[S -> {Number(v) : v \in WeekPointValues} \cup {NotANumber}] : S \in SUBSET P}

\* A team holding the players P: its starters are its own players or empty
\* slots, its reserve is absent or holds its first player
WeekTeams(P) ==
    {[players |-> ListOf(P), starters |-> st, players_points |-> pp, reserve |-> rv] :
        st \in SeqsUpTo(P \cup {0}, MaxStarters),
        pp \in WeekTables(P),
        rv \in {NoneList} \cup {<< p >> : p \in {q \in P : \A r \in P : q <= r}}}

\* n teams; own[p] is the team holding player p, 0 for a free agent
RECURSIVE WeekTeamLists(_, _)
WeekTeamLists(n, own) ==
    IF n = 0 THEN {<< >>}
    ELSE {Append(teams, tm) : teams \in WeekTeamLists(n - 1, own),
                              tm \in WeekTeams({p \in DOMAIN own : own[p] = n})}

\* The roster ids of n records: a roster is listed once, a record may lack its id
RosterIdLists(n) ==
    {ids \in [1..n -> 0..NumRecords] :
        \A i, j \in 1..n : i # j /\ ids[i] # 0 => ids[i] # ids[j]}

\* get_matchups_for_week: one record per team
WeekMatchups(ids, teams) ==
    [i \in DOMAIN ids |-> MatchupRecord(ids[i], teams[i].players, teams[i].starters,
                                        teams[i].players_points)]

\* league.get_rosters(): the rosters of the same teams, owned or orphaned
LeagueRosters(ids, teams, owned) ==
    LET listed == SelectSeq([i \in DOMAIN ids |-> i], LAMBDA i : ids[i] # 0)
    IN  [k \in DOMAIN listed |->
            RosterEntry(ids[listed[k]],
                        IF owned THEN IntToText(100 + ids[listed[k]]) ELSE NoText,
                        teams[listed[k]].reserve)]

\* Uniform raw catalogues and the outcomes of the request during the week
WeekRemoteOutcomes ==
    {[ok |-> FALSE, players |-> EmptyMap]}
        \cup {[ok |-> TRUE, players |-> [p \in CatalogIds |-> e]] : e \in RawEntries}

\* The orders in which list(set) may give the ids
Orders(S) == {perm \in [1..Cardinality(S) -> S] : Range(perm) = S}

InitWeek ==
    /\ pc = "input"
    /\ scored_week = 10 + NumWeeks
    /\ \E n \in 0..NumRecords, owned \in BOOLEAN :
         \E ids \in RosterIdLists(n), own \in [CatalogIds -> 0..n] :
           \E teams \in WeekTeamLists(n, own) :
             /\ matchups = WeekMatchups(ids, teams)
             /\ rosters = LeagueRosters(ids, teams, owned)
             /\ roster_owners = get_roster_owners(LeagueRosters(ids, teams, owned))
    /\ scored_results = << >>
    /\ week_error = FALSE
    /\ results_csv = NoCsv
    /\ loaded_results = << >>
    /\ now = 0
    /\ cache_players = TRUE
    /\ cache_file \in {NoFile} \cup {Snapshot(0, FetchedPlayers(r.players)) :
                                        r \in {o \in WeekRemoteOutcomes :
                                                  DOMAIN FetchedPlayers(o.players) # {}}}
    /\ players_cache = EmptyMap
    /\ cache_loaded = FALSE
    /\ obtained_at = {}
    /\ io_log = << >>
    /\ last_call = NoCall
    /\ IdleBench
    /\ IdlePair
    /\ IdleSeason
    /\ IdlePoints
    /\ IdleSystem

\* What the call leaves behind: its list and the PlayerLookup object
WeekReturned(done) ==
    /\ scored_results' = done.results
    /\ week_error' = done.error
    /\ players_cache' = done.pl.players_cache
    /\ cache_loaded' = done.pl.cache_loaded
    /\ cache_file' = done.pl.cache_file
    /\ obtained_at' = done.pl.obtained_at
    /\ io_log' = done.pl.io_log

ProcessWeekBenchScores ==
    \E remote \in WeekRemoteOutcomes, perm \in Orders(CatalogIds) :
        /\ pc = "input"
        /\ WeekReturned(process_week_bench_scores(scored_week, matchups, rosters,
                            roster_owners, Self, now, remote, cache_players, perm))
        /\ pc' = "scored"
        /\ UNCHANGED << scored_week, matchups, rosters, roster_owners, results_csv,
                        loaded_results, now, cache_players, last_call, benchVars,
                        pairVars, seasonVars, pointsVars,
                    systemVars >>

\* bench_data_manager.py 407-414: save_results writes a new file
SaveWeeklyResults ==
    /\ pc = "scored"
    /\ results_csv' = save_weekly_results(results_csv, scored_results)
    /\ pc' = "saved"
    /\ UNCHANGED << scored_week, matchups, rosters, roster_owners, scored_results,
                    week_error, loaded_results, benchVars, pairVars, seasonVars,
                    pointsVars, lookupVars,
                    systemVars >>

LoadHistoricalData ==
    /\ pc = "saved"
    /\ loaded_results' = load_historical_data(results_csv)
    /\ pc' = "loaded"
    /\ UNCHANGED << scored_week, matchups, rosters, roster_owners, scored_results,
                    week_error, results_csv, benchVars, pairVars, seasonVars,
                    pointsVars, lookupVars,
                    systemVars >>

NextWeek ==
    \/ ProcessWeekBenchScores
    \/ SaveWeeklyResults
    \/ LoadHistoricalData

SpecWeek == InitWeek /\ [][NextWeek]_vars

----------------------------------------------------------------------------
(* Claims about one processed week *)

WeekProcessed == pc \in {"scored", "saved", "loaded"}

\* The records of the week's data that carry a roster id, in record order
ScoredRecords == SelectSeq(matchups, LAMBDA rec : rec.roster_id # 0)

BenchIdsOf(k) ==
    identify_bench_players(ScoredRecords[k].players, ScoredRecords[k].starters,
                           ReservePlayers(rosters, ScoredRecords[k].roster_id))

FetchFailed == \E i \in DOMAIN io_log : io_log[i] = "fetch_failed"

\* C19: when the remote catalogue request fails, no exception leaves the
\* lookup and the map stays empty; the week is still scored, and every bench
\* id of every record gets exactly one bench player entry named Player_<id>
\* with position UNK and team UNK.
C19_FailedFetchGivesPlaceholders ==
    WeekProcessed /\ FetchFailed =>
        /\ ~week_error
        /\ DOMAIN players_cache = {}
        /\ ~cache_loaded
        /\ Len(scored_results) = Len(ScoredRecords)
        /\ \A k \in DOMAIN scored_results \cap DOMAIN ScoredRecords :
              LET entries == scored_results[k].bench_players
              IN  /\ {entries[i].player_id : i \in DOMAIN entries} = BenchIdsOf(k)
                  /\ Len(entries) = Cardinality(BenchIdsOf(k))
                  /\ \A i \in DOMAIN entries :
                        /\ entries[i].player_name = PlaceholderName(entries[i].player_id)
                        /\ entries[i].position = "UNK"
                        /\ entries[i].team = "UNK"

C19_Witness ==
    /\ pc = "scored"
    /\ FetchFailed
    /\ \E k \in DOMAIN scored_results : Len(scored_results[k].bench_players) > 1

\* The five fields of a bench player entry that the detail cell carries
EntryOf(bench_player) ==
    << bench_player.player_id, bench_player.player_name, bench_player.position,
       bench_player.team, bench_player.points >>

\* C15: after save_weekly_results and load_historical_data every saved
\* result comes back with the same week, roster id and owner id and with
\* equal bench player entries: same ids, names, positions, teams and points.
C15_SaveLoadRoundTrip ==
    pc = "loaded" =>
        /\ Len(loaded_results) = Len(scored_results)
        /\ \A k \in DOMAIN scored_results \cap DOMAIN loaded_results :
              LET saved == scored_results[k]
                  back == loaded_results[k]
              IN  /\ back.week = saved.week
                  /\ back.roster_id = saved.roster_id
                  /\ back.owner_id = saved.owner_id
                  /\ Len(back.bench_players) = Len(saved.bench_players)
                  /\ {EntryOf(back.bench_players[i]) : i \in DOMAIN back.bench_players}
                       = {EntryOf(saved.bench_players[i]) : i \in DOMAIN saved.bench_players}
                  /\ \A i \in DOMAIN back.bench_players :
                        /\ back.bench_players[i].week = saved.week
                        /\ back.bench_players[i].roster_id = saved.roster_id
                        /\ back.bench_players[i].owner_id = saved.owner_id

C15_Witness ==
    /\ pc = "loaded"
    /\ results_csv.exists
    /\ \E k \in DOMAIN loaded_results :
          /\ Len(loaded_results[k].bench_players) > 1
          /\ \E i \in DOMAIN loaded_results[k].bench_players :
                loaded_results[k].bench_players[i].points > 0
          /\ \E i \in DOMAIN loaded_results[k].bench_players :
                loaded_results[k].bench_players[i].player_name
                    # PlaceholderName(loaded_results[k].bench_players[i].player_id)

----------------------------------------------------------------------------
(* Claims about lookups after a load *)

\* The last call went to the disk or to the provider
AttemptedLoad ==
    \E i \in DOMAIN io_log : io_log[i] \in {"read", "fetch_ok", "fetch_failed"}

\* C30: once a non-empty map is loaded, a lookup neither reads the disk nor
\* fetches, and finds an id exactly when the map holds it; after a load that
\* failed or gave an empty map the loaded flag stays unset, and a lookup
\* made without a loaded map attempts the load again.
C30_LoadedOnceElseRetried ==
    /\ (last_call.op = "lookup_player_info" /\ last_call.loaded_before)
          => /\ io_log = << >>
             /\ last_call.found = (last_call.player_id \in DOMAIN players_cache)
    /\ (last_call.op # "none" /\ DOMAIN players_cache = {}) => ~cache_loaded
    /\ (last_call.op = "lookup_player_info" /\ ~last_call.loaded_before)
          => AttemptedLoad

----------------------------------------------------------------------------
(* Claims about the fields of a weekly result *)

RECURSIVE SumEntryPoints(_)
SumEntryPoints(entries) ==
    IF entries = << >> THEN 0
    ELSE Head(entries).points + SumEntryPoints(Tail(entries))

\* C26: in every weekly result built by process_week_bench_scores the bench
\* player count is the number of bench player entries, which is the number
\* of bench ids identified for the roster, and the total is the sum of the
\* entries' points rounded to two decimals.
C26_ResultInternallyConsistent ==
    WeekProcessed =>
        \A k \in DOMAIN scored_results \cap DOMAIN ScoredRecords :
            /\ scored_results[k].bench_player_count = Len(scored_results[k].bench_players)
            /\ Len(scored_results[k].bench_players) = Cardinality(BenchIdsOf(k))
            /\ scored_results[k].total_bench_points
                  = Round2(SumEntryPoints(scored_results[k].bench_players))

C26_Witness ==
    /\ pc = "scored"
    /\ \E k \in DOMAIN scored_results :
          /\ scored_results[k].bench_player_count > 1
          /\ scored_results[k].total_bench_points > 0
          /\ \E i \in DOMAIN scored_results[k].bench_players :
                scored_results[k].bench_players[i].points = 0

----------------------------------------------------------------------------
(* main_bench_scoring.py: the week loop of a run, each week fetched by      *)
(* BenchScorer.fetch_week_data                                             *)

\* One per-roster record of the platform's data of a week, as both requests
\* of the week deliver it
PlatformRecord(roster_id, matchup_id, team) ==
    [roster_id |-> roster_id, matchup_id |-> matchup_id, players |-> team.players,
     starters |-> team.starters, players_points |-> team.players_points]

\* get_matchups.py 18-26: the records, [] when the request fails
get_matchups_for_week_unguarded(response) == response.records

get_matchups_for_week(response) ==
    IF response.ok THEN response.records ELSE << >>

\* bench_scorer.py 154-167: the two requests of process_week_bench_scores; a
\* failed roster request raises into the handler of lines 255-257
ProcessWeek(wk, ms, listing, owners, pl, t, remote, cfg, perm) ==
    IF ms # << >> /\ ~listing.ok
    THEN [results |-> << >>, pl |-> pl, error |-> TRUE]
    ELSE process_week_bench_scores(wk, ms, listing.rosters, owners, pl, t, remote,
                                   cfg, perm)

\* bench_scorer.py 345-349: the matchups paired from the week's results
WeekData(scored, wk, sm) ==
    [results |-> scored.results,
     matchups |-> create_weekly_matchups(scored.results, wk, sm),
     pl |-> scored.pl, error |-> scored.error]

\* bench_scorer.py 339-349 with the responses to the requests it makes
fetch_week_data(wk, response, listing, pairing, owners, pl, t, remote, cfg, perm) ==
    WeekData(ProcessWeek(wk, get_matchups_for_week(response), listing, owners, pl, t,
                         remote, cfg, perm),
             wk, get_matchups_for_week(pairing))

\* A team of the run holds the players P, scores a number for each and has
\* no reserve list; its one lineup slot is filled or empty
RunTeams(P) ==
    {tm \in WeekTeams(P) :
        /\ tm.reserve = NoneList
        /\ Len(tm.starters) = MaxStarters
        /\ DOMAIN tm.players_points = P
        /\ \A p \in P : IsNumber(tm.players_points[p])}

\* n teams, team i holding catalogue player i
RECURSIVE RunTeamLists(_)
RunTeamLists(n) ==
    IF n = 0 THEN {<< >>}
    ELSE {Append(teams, tm) : teams \in RunTeamLists(n - 1),
                              tm \in RunTeams({n} \cap CatalogIds)}

\* The platform's data of a week: one record per roster
PlatformWeeks ==
    UNION {{[i \in 1..n |-> PlatformRecord(ids[i], mids[i], teams[i])] :
               ids \in RosterIdLists(n), mids \in [1..n -> 0..MaxMatchupId],
               teams \in RunTeamLists(n)} : n \in 0..NumRecords}

\* league.get_rosters() of the run: every roster, owned or orphaned
RunRosters(owned) ==
    [r \in 1..NumRecords |->
        RosterEntry(r, IF owned THEN IntToText(100 + r) ELSE NoText, NoneList)]

\* The request for the catalogue during the run fails or delivers every
\* player with a full entry
RunRemoteOutcomes ==
    {o \in WeekRemoteOutcomes :
        o.ok => \A p \in DOMAIN o.players : o.players[p].first_name # ""}

\* With one player to a team a bench holds one id at most: list(set) has one order
OneOrder == [i \in CatalogIds |-> i]

IdleRunWeek ==
    /\ scored_week = 0
    /\ matchups = << >>
    /\ scored_results = << >>
    /\ week_error = FALSE
    /\ results_csv = NoCsv
    /\ loaded_results = << >>

InitRun ==
    /\ pc = "weeks"
    /\ run_results = << >>
    /\ run_matchups = << >>
    /\ week_log = << >>
    /\ \E owned \in BOOLEAN :
         /\ rosters = RunRosters(owned)
         /\ roster_owners = get_roster_owners(RunRosters(owned))
    /\ IdleRunWeek
    /\ now = 0
    /\ cache_players = TRUE
    /\ cache_file = NoFile
    /\ players_cache = EmptyMap
    /\ cache_loaded = FALSE
    /\ obtained_at = {}
    /\ io_log = << >>
    /\ last_call = NoCall
    /\ IdleBench
    /\ IdlePair
    /\ IdleSeason
    /\ IdlePoints
    /\ IdleRecords
    /\ IdleStore
    /\ IdleStart

\* main_bench_scoring.py 147-161: what one pass of the loop leaves behind
WeekFetched(wk, response, pairing, fetched) ==
    /\ run_results' = run_results \o fetched.results
    /\ run_matchups' = run_matchups \o fetched.matchups
    /\ week_log' = Append(week_log,
                          [week |-> wk, fetch_ok |-> response.ok,
                           pairing_ok |-> pairing.ok, error |-> fetched.error,
                           listed |-> {rec.roster_id : rec \in Range(response.records)}
                                         \ {0}])
    /\ players_cache' = fetched.pl.players_cache
    /\ cache_loaded' = fetched.pl.cache_loaded
    /\ cache_file' = fetched.pl.cache_file
    /\ obtained_at' = fetched.pl.obtained_at
    /\ io_log' = fetched.pl.io_log

\* One pass of the loop over the weeks 1..NumWeeks
FetchWeekData ==
    \E records \in PlatformWeeks, fetch_ok, rosters_ok, pairing_ok \in BOOLEAN,
       remote \in RunRemoteOutcomes :
        /\ pc = "weeks"
        /\ Len(week_log) < NumWeeks
        /\ WeekFetched(Len(week_log) + 1,
                       [ok |-> fetch_ok, records |-> records],
                       [ok |-> pairing_ok, records |-> records],
                       fetch_week_data(Len(week_log) + 1,
                                       [ok |-> fetch_ok, records |-> records],
                                       [ok |-> rosters_ok, rosters |-> rosters],
                                       [ok |-> pairing_ok, records |-> records],
                                       roster_owners, Self, now, remote, cache_players,
                                       OneOrder))
        /\ UNCHANGED << pc, now, cache_players, last_call, rosters, roster_owners,
                        scored_week, matchups, scored_results, week_error, results_csv,
                        loaded_results, benchVars, pairVars, seasonVars, pointsVars,
                        recordVars, storeVars, startVars >>

\* main_bench_scoring.py 163-165: a run that processed nothing fails
RunEnded ==
    /\ pc = "weeks"
    /\ Len(week_log) = NumWeeks
    /\ pc' = IF run_results = << >> /\ run_matchups = << >> THEN "no_data" ELSE "processed"
    /\ UNCHANGED << runVars, benchVars, pairVars, seasonVars, pointsVars, lookupVars,
                    weekVars, recordVars, storeVars, startVars >>

NextRun ==
    \/ FetchWeekData
    \/ RunEnded

SpecRun == InitRun /\ [][NextRun]_vars

----------------------------------------------------------------------------
(* Claims about a run over several weeks *)

\* The run has a weekly result of week w for roster r with this name and total
RunHasResult(w, r, name, total) ==
    \E i \in DOMAIN run_results :
        /\ run_results[i].week = w
        /\ run_results[i].roster_id = r
        /\ run_results[i].team_name = name
        /\ run_results[i].total_bench_points = total

WeekFailed(entry) == ~entry.fetch_ok \/ entry.error

ResultsOfWeek(w) == {i \in DOMAIN run_results : run_results[i].week = w}

MatchupsOfWeek(w) == {i \in DOMAIN run_matchups : run_matchups[i].week = w}

\* C21: a week whose fetching or processing failed contributes no result
\* and no matchup, every week is processed once and in order, the run goes
\* on to the last week of the range, and each week that did not fail has
\* the results of its listed rosters in the accumulated output
C21_FailedWeekEmptyAndSkipped ==
    /\ \A i \in DOMAIN week_log :
         /\ week_log[i].week = i
         /\ WeekFailed(week_log[i])
               => ResultsOfWeek(i) = {} /\ MatchupsOfWeek(i) = {}
         /\ ~week_log[i].pairing_ok => MatchupsOfWeek(i) = {}
         /\ ~WeekFailed(week_log[i])
               => {run_results[k].roster_id : k \in ResultsOfWeek(i)} = week_log[i].listed
    /\ \A i, k \in DOMAIN run_results :
         i < k => run_results[i].week <= run_results[k].week
    /\ \A k \in DOMAIN run_results : run_results[k].week \in DOMAIN week_log
    /\ pc \in {"no_data", "processed"} => Len(week_log) = NumWeeks

\* A finished run whose first week failed in the handler and whose last
\* week contributed results
C21_Witness ==
    /\ pc = "processed"
    /\ week_log[1].error
    /\ ResultsOfWeek(NumWeeks) # {}
    /\ ResultsOfWeek(1) = {}

----------------------------------------------------------------------------
(* Season records of the batch (update_season_records) and of the          *)
(* dashboard (api/standings.py: SeasonStandings.get) over one list of      *)
(* matchups                                                                *)

MaxMatchups == 2     \* longest list of matchups given to the two computations

\* A matchup of week 1 between two distinct rosters whose winner_roster_id
\* is any roster id
RecordedMatchups ==
    {BenchMatchup(1, 1, sd.r1, DefaultTeamName(sd.r1), 1000,
                  sd.r2, DefaultTeamName(sd.r2), 0, sd.win, 1000) :
        sd \in {x \in [r1 : Rosters, r2 : Rosters, win : Rosters] : x.r1 # x.r2}}

\* standings.py 47-54: the weekly results of one team, joined to its row
TeamResults(wr, roster_id) == SelectSeq(wr, LAMBDA res : res.roster_id = roster_id)

RECURSIVE SumResultPoints(_)
SumResultPoints(wr) ==
    IF wr = << >> THEN 0 ELSE Head(wr).total_bench_points + SumResultPoints(Tail(wr))

MaxPoints(wr) ==
    CHOOSE p \in {wr[i].total_bench_points : i \in DOMAIN wr} :
        \A i \in DOMAIN wr : wr[i].total_bench_points <= p

MinPoints(wr) ==
    CHOOSE p \in {wr[i].total_bench_points : i \in DOMAIN wr} :
        \A i \in DOMAIN wr : wr[i].total_bench_points >= p

\* standings.py 60-62: the matchups whose winner_roster_id is the team's
WinsOf(ms, roster_id) ==
    Cardinality({i \in DOMAIN ms : ms[i].winner_roster_id = roster_id})

\* standings.py 64-67: the matchups the team is a side of
TotalMatchups(ms, roster_id) ==
    Cardinality({i \in DOMAIN ms : \/ ms[i].team1_roster_id = roster_id
                                   \/ ms[i].team2_roster_id = roster_id})

\* standings.py 58-84: the entry of one team; average_points is the exact
\* quotient num / den, win_percentage is in thousandths
StandingsEntry(roster_id, results, ms) ==
    LET wins == WinsOf(ms, roster_id)
        total_matchups == TotalMatchups(ms, roster_id)
    IN  [roster_id |-> roster_id,
         team_name |-> results[1].team_name,
         total_points |-> SumResultPoints(results),
         average_points |-> [num |-> SumResultPoints(results), den |-> Len(results)],
         weeks_played |-> Len(results),
         best_week |-> MaxPoints(results),
         worst_week |-> MinPoints(results),
         wins |-> wins,
         losses |-> total_matchups - wins,
         win_percentage |-> IF total_matchups > 0
                            THEN RoundDiv(1000 * wins, total_matchups) ELSE 0]

\* standings.py 87: sort by total_points, descending and stable
RECURSIVE InsertByTotalPoints(_, _)
InsertByTotalPoints(sorted, x) ==
    IF sorted = << >> THEN << x >>
    ELSE IF Head(sorted).total_points < x.total_points
         THEN << x >> \o sorted
         ELSE << Head(sorted) >> \o InsertByTotalPoints(Tail(sorted), x)

RECURSIVE SortByTotalPoints(_, _)
SortByTotalPoints(sorted, rest) ==
    IF rest = << >> THEN sorted
    ELSE SortByTotalPoints(InsertByTotalPoints(sorted, Head(rest)), Tail(rest))

\* standings.py 41-92 over a store that holds the weekly results wr, a team
\* row for each of their rosters, and the matchups ms, whose sides all have
\* weekly results
SeasonStandingsGet(wr, ms) ==
    LET teams == ListOf({wr[i].roster_id : i \in DOMAIN wr})
    IN  SortByTotalPoints(<< >>,
            [k \in DOMAIN teams |-> StandingsEntry(teams[k], TeamResults(wr, teams[k]), ms)])

InitRecords ==
    /\ pc = "input"
    /\ all_results \in WeeklyResultLists(1)
    /\ all_matchups \in SeqsUpTo(RecordedMatchups, MaxMatchups)
    /\ \A i \in DOMAIN all_matchups :
          \A r \in {all_matchups[i].team1_roster_id, all_matchups[i].team2_roster_id} :
             TeamResults(all_results, r) # << >>
    /\ standings = << >>
    /\ batch_records = << >>
    /\ api_standings = << >>
    /\ IdleBench
    /\ IdlePair
    /\ IdlePoints
    /\ IdleLookup
    /\ IdleWeek
    /\ IdleRun
    /\ IdleStore
    /\ IdleStart

UpdateSeasonRecords ==
    /\ pc = "input"
    /\ batch_records' = update_season_records(all_matchups)
    /\ pc' = "recorded"
    /\ UNCHANGED << api_standings, benchVars, pairVars, seasonVars, pointsVars,
                    lookupVars, weekVars, runVars, storeVars,
                    startVars >>

GetSeasonStandings ==
    /\ pc = "recorded"
    /\ api_standings' = SeasonStandingsGet(all_results, all_matchups)
    /\ pc' = "served"
    /\ UNCHANGED << batch_records, benchVars, pairVars, seasonVars, pointsVars,
                    lookupVars, weekVars, runVars, storeVars,
                    startVars >>

NextRecords ==
    \/ UpdateSeasonRecords
    \/ GetSeasonStandings

SpecRecords == InitRecords /\ [][NextRecords]_vars

----------------------------------------------------------------------------
(* Claims about the season records *)

RECURSIVE SumWins(_)
SumWins(records) ==
    IF records = << >> THEN 0 ELSE Head(records).wins + SumWins(Tail(records))

RECURSIVE SumLosses(_)
SumLosses(records) ==
    IF records = << >> THEN 0 ELSE Head(records).losses + SumLosses(Tail(records))

\* The records conserve the games of the matchups ms
GamesConserved(records, ms) ==
    /\ \A i \in DOMAIN records :
         records[i].wins + records[i].losses = TotalMatchups(ms, records[i].roster_id)
    /\ SumWins(records) = Len(ms)
    /\ SumLosses(records) = Len(ms)

\* The records of update_season_records conserve the games
BatchRecordsConserveGames ==
    pc \in {"recorded", "served"} => GamesConserved(batch_records, all_matchups)

----------------------------------------------------------------------------
(* The data directory written by the runs (bench_data_manager.py:          *)
(* save_results) and the dashboard's store filled from it                  *)
(* (services/data_loader.py: DataLoaderService)                            *)

MaxRuns == 2       \* processing runs
MaxSyncs == 2      \* sync_database calls

\* bench_data_manager.py 57-66: a row of the results file; date_recorded is
\* the time of the run
ResultsFileRow(result, at) ==
    [week |-> IntToText(result.week),
     roster_id |-> IntToText(result.roster_id),
     owner_id |-> result.owner_id,
     team_name |-> result.team_name,
     total_bench_points |-> FloatToText(result.total_bench_points, 100),
     bench_player_count |-> IntToText(result.bench_player_count),
     date_recorded |-> IntToText(at),
     bench_players_detail |-> JsonDumps(BenchDetail(result.bench_players))]

\* bench_data_manager.py 94-106: a row of the matchups file
MatchupsFileRow(m, at) ==
    [week |-> IntToText(m.week),
     matchup_id |-> IntToText(m.matchup_id),
     team1_roster_id |-> IntToText(m.team1_roster_id),
     team1_name |-> m.team1_name,
     team1_bench_points |-> FloatToText(m.team1_bench_points, 100),
     team2_roster_id |-> IntToText(m.team2_roster_id),
     team2_name |-> m.team2_name,
     team2_bench_points |-> FloatToText(m.team2_bench_points, 100),
     winner_roster_id |-> IntToText(m.winner_roster_id),
     margin_of_victory |-> FloatToText(m.margin_of_victory, 100),
     date_recorded |-> IntToText(at)]

CsvFile(at, rows) == [timestamp |-> at, rows |-> rows]

\* bench_data_manager.py 407-421: a file of each kind, written only for a
\* list that is not empty
save_results(files, results, ms, at) ==
    [results |-> IF results # << >>
                 THEN Append(files.results,
                             CsvFile(at, [i \in DOMAIN results |->
                                             ResultsFileRow(results[i], at)]))
                 ELSE files.results,
     matchups |-> IF ms # << >>
                  THEN Append(files.matchups,
                              CsvFile(at, [i \in DOMAIN ms |-> MatchupsFileRow(ms[i], at)]))
                  ELSE files.matchups]

\* main_bench_scoring.py 163-171: a run with nothing processed saves nothing
SavedRun(files, results, ms, at) ==
    IF results = << >> /\ ms = << >> THEN files
    ELSE save_results(files, results, ms, at)

\* data_loader.py 33-34: sorted(files)[-1]; the file names sort by timestamp
LatestFile(files) ==
    files[CHOOSE i \in DOMAIN files :
             \A j \in DOMAIN files : files[j].timestamp <= files[i].timestamp]

\* pandas.read_csv: a column of digit cells is read as integers, so that a
\* cell is stored as the text of its number
ColumnCell(cells, i) ==
    IF \A k \in DOMAIN cells : IsDigits(cells[k])
    THEN IntToText(TextToInt(cells[i]))
    ELSE cells[i]

\* data_loader.py 58-61: the distinct (roster_id, owner_id, team_name) of the
\* file, in the order of their first rows
TeamsData(rows) ==
    LET triple(i) == [roster_id |-> TextToInt(rows[i].roster_id),
                      owner_id |-> ColumnCell([k \in DOMAIN rows |-> rows[k].owner_id], i),
                      team_name |-> ColumnCell([k \in DOMAIN rows |-> rows[k].team_name], i)]
        first == SelectSeq([i \in DOMAIN rows |-> i],
                           LAMBDA i : \A j \in 1..(i - 1) : triple(j) # triple(i))
    IN  [k \in DOMAIN first |-> triple(first[k])]

\* data_loader.py 64-77: a team is added unless its roster id has a row
RECURSIVE load_teams_from_results(_, _)
load_teams_from_results(teams, teams_data) ==
    IF teams_data = << >> THEN teams
    ELSE LET row == Head(teams_data)
         IN  load_teams_from_results(
                 IF row.roster_id \in DOMAIN teams THEN teams
                 ELSE [r \in DOMAIN teams \cup {row.roster_id} |->
                          IF r = row.roster_id
                          THEN [owner_id |-> row.owner_id, team_name |-> row.team_name]
                          ELSE teams[r]],
                 Tail(teams_data))

\* data_loader.py 91-98: a row of table weekly_results
WeeklyResultRow(row) ==
    [week |-> TextToInt(row.week),
     roster_id |-> TextToInt(row.roster_id),
     total_bench_points |-> TextToFloat(row.total_bench_points, 100),
     bench_player_count |-> TextToInt(row.bench_player_count),
     date_recorded |-> TextToInt(row.date_recorded),
     bench_players_json |-> row.bench_players_detail]

\* data_loader.py 80-104 without the delete of line 85
load_weekly_results_appending(table, rows) ==
    table \o [i \in DOMAIN rows |-> WeeklyResultRow(rows[i])]

\* data_loader.py 80-104: the table is emptied, then filled from the file
load_weekly_results(table, rows) ==
    [i \in DOMAIN rows |-> WeeklyResultRow(rows[i])]

\* data_loader.py 117-127: a row of table matchups
MatchupRow(row) ==
    [week |-> TextToInt(row.week),
     matchup_id |-> TextToInt(row.matchup_id),
     team1_roster_id |-> TextToInt(row.team1_roster_id),
     team1_bench_points |-> TextToFloat(row.team1_bench_points, 100),
     team2_roster_id |-> TextToInt(row.team2_roster_id),
     team2_bench_points |-> TextToFloat(row.team2_bench_points, 100),
     winner_roster_id |-> TextToInt(row.winner_roster_id),
     margin_of_victory |-> TextToFloat(row.margin_of_victory, 100),
     date_recorded |-> TextToInt(row.date_recorded)]

\* data_loader.py 106-133 without the delete of line 111
load_matchups_appending(table, rows) ==
    table \o [i \in DOMAIN rows |-> MatchupRow(rows[i])]

\* data_loader.py 106-133
load_matchups(table, rows) ==
    [i \in DOMAIN rows |-> MatchupRow(rows[i])]

\* data_loader.py 40-54: the three loads from the files picked
LoadedFrom(db, results_file, matchups_file) ==
    [raised |-> FALSE,
     teams |-> load_teams_from_results(db.teams, TeamsData(results_file.rows)),
     weekly_results |-> load_weekly_results(db.weekly_results, results_file.rows),
     matchups |-> load_matchups(db.matchups, matchups_file.rows),
     results_from |-> results_file.timestamp,
     matchups_from |-> matchups_file.timestamp]

\* data_loader.py 16-54; FileNotFoundError leaves the store as it was
load_csv_files(db, files) ==
    IF files.results = << >> \/ files.matchups = << >>
    THEN [raised |-> TRUE, teams |-> db.teams, weekly_results |-> db.weekly_results,
          matchups |-> db.matchups, results_from |-> 0, matchups_from |-> 0]
    ELSE LoadedFrom(db, LatestFile(files.results), LatestFile(files.matchups))

\* The league as a run finds it: every roster owned, or every roster orphaned
StoreRosters(owned) ==
    [r \in 1..NumRosters |->
        RosterEntry(r, IF owned THEN IntToText(100 + r) ELSE NoText, NoneList)]

\* The weekly result of roster r in a run: one bench player scoring 1.234
\* points, or an empty bench
StoreResult(wk, r, rs, benched) ==
    LET owner_id == OwnerId(rs, r)
        bench_players ==
            IF benched
            THEN << NewBenchPlayer([found |-> FALSE, info |-> NoInfo], 1,
                                   Number(1234), wk, r, owner_id) >>
            ELSE << >>
    IN  WeeklyTeamResult(wk, r, owner_id,
                         Get(get_roster_owners(rs), r, DefaultTeamName(r)),
                         bench_players,
                         calculate_bench_points(IF benched THEN << 1 >> ELSE << >>,
                                                [p \in {1} |-> Number(1234)]))

\* What a run of week wk accumulates for the rosters S: their results, and
\* the matchup of the two lowest of them when the platform pairs them
StoreRunOutput(wk, S, owned, benched, paired) ==
    LET ids == ListOf(S)
        rs == StoreRosters(owned)
        results == [i \in DOMAIN ids |-> StoreResult(wk, ids[i], rs, benched /\ i = 1)]
        sm == [i \in DOMAIN ids |-> SleeperRecord(ids[i], IF paired /\ i <= 2 THEN 1 ELSE 0)]
    IN  [results |-> results, matchups |-> create_weekly_matchups(results, wk, sm)]

StoreRunOutputs ==
    {StoreRunOutput(wk, S, owned, benched, paired) :
        wk \in Weeks, S \in SUBSET Rosters, owned \in BOOLEAN, benched \in BOOLEAN,
        paired \in BOOLEAN}

InitStore ==
    /\ pc = "idle"
    /\ run_count = 0
    /\ results_files = << >>
    /\ matchups_files = << >>
    /\ db_teams = EmptyMap
    /\ db_weekly_results = << >>
    /\ db_matchups = << >>
    /\ sync_log = << >>
    /\ IdleBench
    /\ IdlePair
    /\ IdleSeason
    /\ IdlePoints
    /\ IdleLookup
    /\ IdleWeek
    /\ IdleRun
    /\ IdleRecords
    /\ IdleStart

\* What a run leaves in the data directory
RunSaved(files) ==
    /\ results_files' = files.results
    /\ matchups_files' = files.matchups

\* main_bench_scoring.py 143-171: a run, saving at timestamp run_count + 1
ProcessingRun ==
    \E output \in StoreRunOutputs :
        /\ run_count < MaxRuns
        /\ run_count' = run_count + 1
        /\ RunSaved(SavedRun([results |-> results_files, matchups |-> matchups_files],
                             output.results, output.matchups, run_count + 1))
        /\ UNCHANGED << pc, db_teams, db_weekly_results, db_matchups, sync_log,
                        benchVars, pairVars, seasonVars, pointsVars, lookupVars,
                        weekVars, runVars, recordVars, startVars >>

\* What a sync leaves in the store
Synced(loaded) ==
    /\ db_teams' = loaded.teams
    /\ db_weekly_results' = loaded.weekly_results
    /\ db_matchups' = loaded.matchups
    /\ sync_log' = Append(sync_log,
                          [raised |-> loaded.raised, runs |-> run_count,
                           results_from |-> loaded.results_from,
                           matchups_from |-> loaded.matchups_from,
                           teams |-> loaded.teams,
                           weekly_results |-> loaded.weekly_results,
                           matchups |-> loaded.matchups])

\* data_loader.py 143-149
SyncDatabase ==
    /\ Len(sync_log) < MaxSyncs
    /\ Synced(load_csv_files([teams |-> db_teams, weekly_results |-> db_weekly_results,
                              matchups |-> db_matchups],
                             [results |-> results_files, matchups |-> matchups_files]))
    /\ UNCHANGED << pc, run_count, results_files, matchups_files, benchVars, pairVars,
                    seasonVars, pointsVars, lookupVars, weekVars, runVars, recordVars,
                    startVars >>

NextStore ==
    \/ ProcessingRun
    \/ SyncDatabase

SpecStore == InitStore /\ [][NextStore]_vars

----------------------------------------------------------------------------
(* Claims about the store *)

\* The last sync_database call returned without an exception
SyncedLast == sync_log # << >> /\ ~sync_log[Len(sync_log)].raised

LastSync == sync_log[Len(sync_log)]

KeyOf(row) == << row.roster_id, row.week >>

\* C22: table weekly_results never holds two rows with the same
\* (roster_id, week), and after a sync every row of it is a row of the
\* results file that sync loaded: an earlier row of the same key is gone
C22_OneRowPerRosterAndWeek ==
    /\ \A i, j \in DOMAIN db_weekly_results :
          i # j => KeyOf(db_weekly_results[i]) # KeyOf(db_weekly_results[j])
    /\ SyncedLast
          => \A i \in DOMAIN db_weekly_results :
                db_weekly_results[i].date_recorded = LastSync.results_from

\* Two syncs loaded results files of different runs that both hold a row of
\* one (roster_id, week)
C22_Witness ==
    /\ Len(sync_log) = 2
    /\ ~sync_log[1].raised
    /\ ~sync_log[2].raised
    /\ sync_log[1].results_from # sync_log[2].results_from
    /\ \E i \in DOMAIN sync_log[1].weekly_results, j \in DOMAIN db_weekly_results :
          KeyOf(sync_log[1].weekly_results[i]) = KeyOf(db_weekly_results[j])

\* The three tables as a sync left them
TablesOf(entry) == << entry.teams, entry.weekly_results, entry.matchups >>

\* C23: a sync_database call that follows another with no run in between,
\* so that both find the same CSV files, leaves the three tables as the
\* first one left them
C23_SyncIdempotent ==
    \A i \in DOMAIN sync_log :
        (i > 1 /\ sync_log[i - 1].runs = sync_log[i].runs)
           => /\ TablesOf(sync_log[i]) = TablesOf(sync_log[i - 1])
              /\ sync_log[i].raised = sync_log[i - 1].raised

\* Two syncs in a row over the same files that filled all three tables
C23_Witness ==
    /\ Len(sync_log) = 2
    /\ sync_log[1].runs = sync_log[2].runs
    /\ ~sync_log[2].raised
    /\ db_teams # EmptyMap
    /\ db_weekly_results # << >>
    /\ db_matchups # << >>

\* The file of the given timestamp
FileAt(files, at) == files[CHOOSE i \in DOMAIN files : files[i].timestamp = at]

\* The rows of table teams
TeamRows == {[roster_id |-> r, owner_id |-> db_teams[r].owner_id,
              team_name |-> db_teams[r].team_name] : r \in DOMAIN db_teams}

\* C24: after a successful sync the three tables hold exactly the teams,
\* the weekly results and the matchups of the files it loaded, no team row
\* and no team name of an earlier sync being left
C24_StoreRebuiltFromLatestFiles ==
    SyncedLast
       => /\ TeamRows = Range(TeamsData(FileAt(results_files, LastSync.results_from).rows))
          /\ db_weekly_results
                = load_weekly_results(<< >>, FileAt(results_files, LastSync.results_from).rows)
          /\ db_matchups
                = load_matchups(<< >>, FileAt(matchups_files, LastSync.matchups_from).rows)

\* C29: after a successful sync every roster id of weekly_results and every
\* team1, team2 and winner roster id of matchups has a row in teams, and
\* the weekly results and the matchups loaded stem from the same run
C29_StoreReferentiallyConsistent ==
    SyncedLast
       => /\ \A i \in DOMAIN db_weekly_results :
                db_weekly_results[i].roster_id \in DOMAIN db_teams
          /\ \A i \in DOMAIN db_matchups :
                {db_matchups[i].team1_roster_id, db_matchups[i].team2_roster_id,
                 db_matchups[i].winner_roster_id} \subseteq DOMAIN db_teams
          /\ LastSync.results_from = LastSync.matchups_from

----------------------------------------------------------------------------
(* main_bench_scoring.py: the start of main, with config.py:               *)
(* Config.validate_config and the constructors of BenchScorer and          *)
(* BenchDataManager                                                        *)

NumLeagues == 2      \* league ids are the texts of 1..NumLeagues

LeagueIds == {IntToText(n) : n \in 1..NumLeagues}

Directories == {Directory(e, w) : e, w \in BOOLEAN}

Given(value) == [given |-> TRUE, value |-> value]

\* main_bench_scoring.py 100-105: args.league_id, config.league_id by default
ArgsLeagueId ==
    IF given_league_id.given THEN given_league_id.value ELSE config_league_id

\* main_bench_scoring.py 71-76: the directory args.output_dir names,
\* config.data_dir by default
ArgsOutputDir ==
    IF given_output_dir.given THEN given_output_dir.value ELSE data_dir

\* config.py 31-39: "raised" for the ValueError of line 34, "failed" for the
\* OSError of os.makedirs, else the directory as the call leaves it
validate_config(league_id, dir) ==
    IF league_id = NoText THEN [outcome |-> "raised", dir |-> dir]
    ELSE IF ~dir.exists /\ ~dir.writable THEN [outcome |-> "failed", dir |-> dir]
    ELSE [outcome |-> "ok", dir |-> Directory(TRUE, dir.writable)]

\* bench_data_manager.py 20-23: ensure_data_dir
ensure_data_dir(dir) ==
    IF ~dir.exists /\ ~dir.writable THEN [outcome |-> "failed", dir |-> dir]
    ELSE [outcome |-> "ok", dir |-> Directory(TRUE, dir.writable)]

InitStart ==
    /\ pc = "start"
    /\ config_league_id \in {NoText} \cup LeagueIds
    /\ given_league_id \in {NotGiven(NoText)} \cup {Given(id) : id \in {NoText} \cup LeagueIds}
    /\ data_dir \in Directories
    /\ given_output_dir \in {NotGiven(Directory(TRUE, TRUE))}
                               \cup {Given(dir) : dir \in Directories}
    /\ requests = << >>
    /\ exit_status = -1
    /\ IdleBench
    /\ IdlePair
    /\ IdleSeason
    /\ IdlePoints
    /\ IdleLookup
    /\ IdleWeek
    /\ IdleRun
    /\ IdleRecords
    /\ IdleStore

\* What validate_config leaves behind: main returns 1 on the ValueError
\* (lines 111-114); an OSError is not caught and ends the process with status 1
Validated(checked) ==
    /\ data_dir' = checked.dir
    /\ pc' = IF checked.outcome = "ok" THEN "validated" ELSE "exited"
    /\ exit_status' = IF checked.outcome = "ok" THEN exit_status ELSE 1

\* main_bench_scoring.py 109-114
ValidateConfig ==
    /\ pc = "start"
    /\ Validated(validate_config(config_league_id, data_dir))
    /\ UNCHANGED << config_league_id, given_league_id, given_output_dir, requests,
                    benchVars, pairVars, seasonVars, pointsVars, lookupVars, weekVars,
                    runVars, recordVars, storeVars >>

\* main_bench_scoring.py 117 with bench_scorer.py 86-101: the constructor
\* requests the users and the rosters of the league
ConstructBenchScorer ==
    /\ pc = "validated"
    /\ requests' = Append(requests, ArgsLeagueId)
    /\ pc' = "scorer"
    /\ UNCHANGED << config_league_id, given_league_id, data_dir, given_output_dir,
                    exit_status, benchVars, pairVars, seasonVars, pointsVars,
                    lookupVars, weekVars, runVars, recordVars, storeVars >>

\* What ensure_data_dir leaves behind; its OSError is not caught
DirectoryEnsured(ensured) ==
    /\ IF given_output_dir.given
       THEN given_output_dir' = Given(ensured.dir) /\ data_dir' = data_dir
       ELSE data_dir' = ensured.dir /\ given_output_dir' = given_output_dir
    /\ pc' = IF ensured.outcome = "ok" THEN "ready" ELSE "exited"
    /\ exit_status' = IF ensured.outcome = "ok" THEN exit_status ELSE 1

\* main_bench_scoring.py 118 with bench_data_manager.py 16-23
ConstructDataManager ==
    /\ pc = "scorer"
    /\ DirectoryEnsured(ensure_data_dir(ArgsOutputDir))
    /\ UNCHANGED << config_league_id, given_league_id, requests, benchVars, pairVars,
                    seasonVars, pointsVars, lookupVars, weekVars, runVars, recordVars,
                    storeVars >>

\* main_bench_scoring.py 128-190: the weeks are requested, then the files are
\* written: 0 needs data, which no league without an id delivers, and a
\* directory that can be written
ProcessWeeks ==
    /\ pc = "ready"
    /\ requests' = Append(requests, ArgsLeagueId)
    /\ exit_status' \in IF ArgsOutputDir.writable /\ ArgsLeagueId # NoText
                         THEN {0, 1} ELSE {1}
    /\ pc' = "exited"
    /\ UNCHANGED << config_league_id, given_league_id, data_dir, given_output_dir,
                    benchVars, pairVars, seasonVars, pointsVars, lookupVars, weekVars,
                    runVars, recordVars, storeVars >>

NextStart ==
    \/ ValidateConfig
    \/ ConstructBenchScorer
    \/ ConstructDataManager
    \/ ProcessWeeks

SpecStart == InitStart /\ [][NextStart]_vars

----------------------------------------------------------------------------
(* Claims about the start of main *)

\* The run has a configuration error: the league id it would use is
\* missing, or the directory it would write to cannot be written
ConfigurationError ==
    \/ ArgsLeagueId = NoText
    \/ ~ArgsOutputDir.writable

\* C25: a run with a configuration error, judged by the league id and the
\* directory the run would use, sends no request to the platform and ends
\* with a failure status
C25_ConfigErrorFatalBeforeNetwork ==
    ConfigurationError
       => /\ requests = << >>
          /\ pc = "exited" => exit_status = 1

====
